---- MODULE Spec2Model ----
(***************************************************************************)
(* State-machine model of the MaxMSP audio-over-UDP receivers.             *)
(*                                                                         *)
(* The repository holds several independent programs; each is modelled by  *)
(* its own group of variables and its own specification:                   *)
(*   SpecBuf  code/writetobuf.js   the double-buffer writer (Max js)       *)
(*   SpecUdp  UDP.js               the UDP receiver and recorder           *)
(*   SpecAsr  code/sRtin.js        the recognizer bridge                   *)
(*   SpecTcp  TCP.js               the TCP receiver                        *)
(*   SpecDec  the convertMatrixToFloat32 functions of UDP.js, TCP.js,      *)
(*            code/sRtin.js and code/UDPdown.js, one call on one payload   *)
(* A specification leaves the variables of the other programs unchanged.   *)
(***************************************************************************)
EXTENDS Integers, Sequences, FiniteSets, TLC

(***************************************************************************)
(* Bounds of the model (not program constants).                            *)
(***************************************************************************)
\* longest chunk handed to writeAudioChunk in one call
MaxChunkLen == 2
\* number of writeAudioChunk calls explored
MaxWrites == 3
\* number of buffer switches explored
MaxSwitches == 2
\* most complete 4-byte groups after the header of a received packet
MaxPacketGroups == 1
\* packets that yield samples, per run
MaxPackets == 2
\* stopRecording calls suspended in saveAudioFile at the same time
MaxSaving == 1
\* most complete 4-byte groups in a datagram sent to sRtin.js
MaxAsrGroups == 4
\* datagrams handled by sRtin.js, per run
MaxAsrPackets == 2
\* most complete 4-byte groups in a payload handed to a decoder on its own
MaxGroups == 3
\* data events that yield samples in TCP.js, per run
MaxTcpChunks == 2

(***************************************************************************)
(* State of code/writetobuf.js                                             *)
(***************************************************************************)
VARIABLES
    framecount,      \* framecount[b]: frames of buffer~ b (1 = UDPbuf, 2 = UDPbuf2)
    samples,         \* samples[b][i]: channel-1 content of buffer b at frame i
    activeBuffer,    \* the buffer activeBuffer refers to
    inactiveBuffer,  \* the buffer inactiveBuffer refers to
    clipStart1,      \* the write cursor
    pendingClears,   \* scheduled clearInactiveBuffer tasks, oldest first;
                     \* each holds the number of the switch that scheduled it
    switchCount,     \* clearBuffer / switchBuffer calls so far
    writeCount,      \* writeAudioChunk calls so far
    poked,           \* frame indices passed to poke by the last writeAudioChunk
    firedClear,      \* the task that fired last (0: none yet)
    bufPosted,       \* the last message post()ed
    totalWritten,    \* samples written by all writeAudioChunk calls so far
    faded            \* the last applyFadeOut: the buffer it worked on and the
                     \* frame indices it passed to peek and poke

varsBuf == <<framecount, samples, activeBuffer, inactiveBuffer, clipStart1,
             pendingClears, switchCount, writeCount, poked, firedClear, bufPosted,
             totalWritten, faded>>

(***************************************************************************)
(* State of UDP.js                                                         *)
(***************************************************************************)
VARIABLES
    recording,        \* the recording flag
    recordingAudio,   \* the accumulated samples
    chunkCounter,     \* packets that yielded samples
    lastValue,        \* continuity state of convertMatrixToFloat32: isNull, or
                      \* the value (index is a copy of lastIndex)
    lastIndex,        \* 0 while lastValue is null
    saving,           \* stopRecording calls suspended at await saveAudioFile:
                      \* the samples each one handed to saveAudioFile
    outlet,           \* the last Max.outlet message
    udpPosted,        \* the last Max.post message
    udpEvent,         \* the handler that ran last
    sessionOpen,      \* a startRecording was handled and no stopRecording since
    lastStop,         \* outcome of the stopRecording that completed last
    discarded,        \* samples the last completed stopRecording dropped
                      \* without having handed them to saveAudioFile
    fed,              \* the samples that arrived while the session was open,
                      \* since its startRecording
    savingFed,        \* for each suspended stopRecording: whether it closed
                      \* an open session, and the samples fed to that session
    wavFile,          \* the WAV file the last successful saveAudioFile wrote
    fileSession,      \* the savingFed entry of the stopRecording that wrote it
    fanout,           \* the consumers the last message handler handed its
                      \* chunk to, in the order of the hand-offs
    udpServer,        \* the socket of startServer: "binding" once
                      \* server.bind(port) is called, then "listening" or
                      \* "failed"
    received          \* floatData.length of the datagram handled last

varsUdp == <<recording, recordingAudio, chunkCounter, lastValue, lastIndex,
             saving, outlet, udpPosted, udpEvent, sessionOpen, lastStop, discarded,
             fed, savingFed, wavFile, fileSession, fanout, udpServer, received>>

(***************************************************************************)
(* State of code/sRtin.js                                                  *)
(***************************************************************************)
VARIABLES
    audioBuffer,        \* the frame accumulator (16-bit samples)
    isRecording,        \* the recording flag
    asrRecordingAudio,  \* recordingAudio of sRtin.js
    lastPartialResult,  \* the stored partial transcript ("" when none)
    asrSaving,          \* stopRecording calls suspended at await saveAudioFile
    asrOutlets,         \* the Max.outlet messages of the last handler, in order
    asrPosted,          \* the last Max.post message
    pushed,             \* every sample appended to audioBuffer so far, in order
    taken,              \* every frame sliced off audioBuffer so far, in order
    forwarded,          \* every array passed to rec.acceptWaveform so far, in order
    asrPackets,         \* datagrams handled so far
    asrEvent,           \* the handler that ran last
    asrServer,          \* the UDP socket: "listening" or "closed"
    partialLog          \* what the last handler did with partial transcripts

varsAsr == <<audioBuffer, isRecording, asrRecordingAudio, lastPartialResult,
             asrSaving, asrOutlets, asrPosted, pushed, taken, forwarded, asrPackets,
             asrEvent, asrServer, partialLog>>

(***************************************************************************)
(* State of TCP.js                                                         *)
(***************************************************************************)
VARIABLES
    tcpRecordingAudio,  \* recordingAudio of TCP.js
    tcpChunkCounter,    \* chunkCounter of TCP.js
    tcpSaving,          \* stopRecording calls suspended at await saveAudioFile
    tcpFileLines,       \* lines appended to float_data.txt so far
    tcpAlive,           \* the node process is running
    tcpFault,           \* the exception the last 'data' handler raised ("none")
    tcpPosted           \* the last Max.post message

varsTcp == <<tcpRecordingAudio, tcpChunkCounter, tcpSaving, tcpFileLines,
             tcpAlive, tcpFault, tcpPosted>>

(***************************************************************************)
(* State of the decoder runs: one payload handed to one of the             *)
(* convertMatrixToFloat32 functions                                        *)
(***************************************************************************)
VARIABLES
    decInput,    \* the payload: its values, its tail length, cut or not
    decLast,     \* lastValue / lastIndex when the function is called
    decoder,     \* the function that was applied ("none" before)
    decoded,     \* the values it returned, or the error it threw
    decLastAfter \* lastValue / lastIndex when it has returned

varsDec == <<decInput, decLast, decoder, decoded, decLastAfter>>

(***************************************************************************)
(* State of the conversion runs: one float sample handed to one of the     *)
(* float-to-PCM conversions                                                *)
(***************************************************************************)
VARIABLES
    pcmInput,    \* the sample
    pcmBy,       \* the function that converted it ("none" before)
    pcmOutput    \* the element of the Int16Array it produced

varsPcm == <<pcmInput, pcmBy, pcmOutput>>

(***************************************************************************)
(* State of the resampler runs: chunks handed to downsampleAudio one call  *)
(* after the other, as the frames of the message handler are               *)
(***************************************************************************)
VARIABLES
    resRates,    \* fromSampleRate and toSampleRate of the calls
    resChunks,   \* the chunks handed over so far, one per call
    resOutputs,  \* what each call returned
    resReads     \* the indices of its chunk each call read

varsRes == <<resRates, resChunks, resOutputs, resReads>>

(***************************************************************************)
(* State of the TCP receivers with changePort (unnamed/part_003 and        *)
(* unnamed/part_004)                                                       *)
(***************************************************************************)
VARIABLES
    port,        \* the port variable
    server,      \* the net.Server held in the server variable: the port it
                 \* was told to listen on and whether its listen succeeded
    listeners,   \* the ports on which a listening handle is open
    connections, \* the client sockets that were accepted and are still open,
                 \* each with the port of the listener that accepted it
    delivered,   \* the port of the listener whose connection delivered the
                 \* last payload to the 'data' handler (0 before any)
    portEvent    \* the handler that ran last

varsPort == <<port, server, listeners, connections, delivered, portEvent>>

vars == <<varsBuf, varsUdp, varsAsr, varsTcp, varsDec, varsPcm, varsRes, varsPort>>

(***************************************************************************)
(* code/writetobuf.js                                                      *)
(***************************************************************************)
\* Length of the fade-out, in frames.  The code uses 441; the model scales it
\* down together with the buffers, and keeps buffers shorter than, as long as
\* and longer than the fade.
fadeLength == 2

\* frame counts the two buffer~ objects may have (they are created by the patch)
FrameCounts == {0, 1, 3, 4}

Buffers == {1, 2}


\* A stored frame: v is the value last poked, k the number of fade-outs
\* applied to it since and w the product of their numerators; the stored
\* amplitude is v * w / fadeLength^k.
Cell(val) == [v |-> val, k |-> 0, w |-> 1]

Silence == Cell(0)

\* the chunks handed to writeAudioChunk: n samples, the i-th of value i
Chunks == {[i \in 1..n |-> i] : n \in 0..MaxChunkLen}

\* Buffer.poke(1, frame, value): a frame outside the buffer~ is not stored
Poke(buf, frame, cell) ==
    IF frame \in DOMAIN buf THEN [buf EXCEPT ![frame] = cell] ELSE buf

\* the frames writeAudioChunk pokes: clipStart1 + i for i = 0 .. numSamples-1
PokedFrames(start, numSamples) == {start + i : i \in 0..(numSamples - 1)}

\* the loop of writeAudioChunk
RECURSIVE PokeAll(_, _, _, _)
PokeAll(buf, start, audioData, i) ==
    IF i > Len(audioData) THEN buf
    ELSE PokeAll(Poke(buf, start + (i - 1), Cell(audioData[i])), start, audioData, i + 1)

\* the cursor after a write of numSamples frames
AdvanceClipStartLate(start, numSamples, frames) ==
    IF start + numSamples > frames THEN 0 ELSE start + numSamples
AdvanceClipStart(start, numSamples, frames) ==
    IF start + numSamples >= frames THEN 0 ELSE start + numSamples

NoFade == [buffer |-> 0, frames |-> {}]

BufInit ==
    /\ framecount \in [Buffers -> FrameCounts]
    /\ samples = [b \in Buffers |-> [i \in 0..(framecount[b] - 1) |-> Silence]]
    /\ activeBuffer = 1
    /\ inactiveBuffer = 2
    /\ clipStart1 = 0
    /\ pendingClears = <<>>
    /\ switchCount = 0
    /\ writeCount = 0
    /\ poked = {}
    /\ firedClear = 0
    /\ bufPosted = "none"
    /\ totalWritten = 0
    /\ faded = NoFade

\* a size test that lets a chunk one sample too long through
TooSmallOffByOne(capacity, numSamples) == capacity + 1 < numSamples

\* activeBuffer.framecount() < numSamples
TooSmall(capacity, numSamples) == capacity < numSamples

writeAudioChunk(audioData) ==
    /\ writeCount < MaxWrites
    /\ writeCount' = writeCount + 1
    /\ IF framecount[activeBuffer] = 0
       THEN /\ bufPosted' = "Active buffer not initialized or is empty."
            /\ UNCHANGED <<samples, clipStart1, poked, totalWritten>>
       ELSE IF TooSmall(framecount[activeBuffer], Len(audioData))
       THEN /\ bufPosted' = "Active buffer is too small for the incoming data."
            /\ UNCHANGED <<samples, clipStart1, poked, totalWritten>>
       ELSE /\ samples' = [samples EXCEPT ![activeBuffer] =
                              PokeAll(@, clipStart1, audioData, 1)]
            /\ poked' = PokedFrames(clipStart1, Len(audioData))
            /\ clipStart1' = AdvanceClipStart(clipStart1, Len(audioData),
                                              framecount[activeBuffer])
            /\ bufPosted' = "written"
            /\ totalWritten' = totalWritten + Len(audioData)
    /\ UNCHANGED <<framecount, activeBuffer, inactiveBuffer, pendingClears,
                   switchCount, firedClear, faded>>
    /\ UNCHANGED <<varsUdp, varsAsr, varsTcp, varsDec, varsPcm, varsRes, varsPort>>

\* fadeOutFactor = (fadeLength - i) / fadeLength, kept as its numerator
FadeOutNumeratorRising(i) == i + 1
FadeOutNumerator(i) == fadeLength - i

\* the frame indices applyFadeOut peeks and pokes:
\* bufferLength - fadeLength + i for i = 0 .. fadeLength-1
FadedFrames(bufferLength) ==
    {bufferLength - fadeLength + i : i \in 0..(fadeLength - 1)}

\* applyFadeOut: each of these frames is multiplied by its fadeOutFactor; a
\* frame outside the buffer~ is not stored
applyFadeOut(buf, bufferLength) ==
    [j \in DOMAIN buf |->
        IF j \in FadedFrames(bufferLength)
        THEN [buf[j] EXCEPT !.k = @ + 1,
                            !.w = @ * FadeOutNumerator(j - (bufferLength - fadeLength))]
        ELSE buf[j]]

\* clearBuffer calls applyFadeOut before switchBuffer: the buffer that is
\* faded is the one activeBuffer refers to before the exchange
FadeTargetAfterSwap(active, inactive) == inactive
FadeTarget(active, inactive) == active

\* switchBuffer: the two references are exchanged
SwappedActive(a, b) == b
SwappedInactiveStale(a, b) == b
SwappedInactive(a, b) == a

\* clearBuffer: a new Task is created and scheduled on every call; no earlier
\* task is cancelled
ScheduleClear(tasks, id) == Append(tasks, id)

clearBuffer ==
    /\ switchCount < MaxSwitches
    /\ switchCount' = switchCount + 1
    /\ \E target \in {FadeTarget(activeBuffer, inactiveBuffer)} :
          /\ samples' = [samples EXCEPT ![target] = applyFadeOut(@, framecount[target])]
          /\ faded' = [buffer |-> target, frames |-> FadedFrames(framecount[target])]
    /\ activeBuffer' = SwappedActive(activeBuffer, inactiveBuffer)
    /\ inactiveBuffer' = SwappedInactive(activeBuffer, inactiveBuffer)
    /\ pendingClears' = ScheduleClear(pendingClears, switchCount + 1)
    /\ bufPosted' = "Switched"
    /\ UNCHANGED <<framecount, clipStart1, writeCount, poked, firedClear, totalWritten>>
    /\ UNCHANGED <<varsUdp, varsAsr, varsTcp, varsDec, varsPcm, varsRes, varsPort>>

\* the switchBuffer message sent on its own
switchBuffer ==
    /\ switchCount < MaxSwitches
    /\ switchCount' = switchCount + 1
    /\ activeBuffer' = SwappedActive(activeBuffer, inactiveBuffer)
    /\ inactiveBuffer' = SwappedInactive(activeBuffer, inactiveBuffer)
    /\ bufPosted' = "Switched"
    /\ UNCHANGED <<framecount, samples, clipStart1, pendingClears, writeCount,
                   poked, firedClear, totalWritten, faded>>
    /\ UNCHANGED <<varsUdp, varsAsr, varsTcp, varsDec, varsPcm, varsRes, varsPort>>

\* send("clear"): every frame of the buffer~ is zeroed
NotCleared(buf) == buf
ClearedBuffer(buf) == [j \in DOMAIN buf |-> Silence]

\* a task that clears the buffer being written
ClearTargetActive(active, inactive) == active

\* the buffer clearInactiveBuffer sends "clear" to: the one that is inactive
\* when the task fires
ClearTarget(active, inactive) == inactive

\* a scheduled task fires after switchDelay ms: clearInactiveBuffer
clearInactiveBuffer ==
    /\ pendingClears # <<>>
    /\ firedClear' = Head(pendingClears)
    /\ pendingClears' = Tail(pendingClears)
    /\ samples' = [samples EXCEPT ![ClearTarget(activeBuffer, inactiveBuffer)] =
                                 ClearedBuffer(@)]
    /\ clipStart1' = 0
    /\ bufPosted' = "Inactive buffer cleared after delay."
    /\ UNCHANGED <<framecount, activeBuffer, inactiveBuffer, switchCount,
                   writeCount, poked, totalWritten, faded>>
    /\ UNCHANGED <<varsUdp, varsAsr, varsTcp, varsDec, varsPcm, varsRes, varsPort>>

NextBuf ==
    \/ \E audioData \in Chunks : writeAudioChunk(audioData)
    \/ clearBuffer
    \/ switchBuffer
    \/ clearInactiveBuffer

\* the writer's variables when another program is the one running
BufIdle ==
    /\ framecount = [b \in Buffers |-> 0]
    /\ samples = [b \in Buffers |-> <<>>]
    /\ activeBuffer = 1
    /\ inactiveBuffer = 2
    /\ clipStart1 = 0
    /\ pendingClears = <<>>
    /\ switchCount = 0
    /\ writeCount = 0
    /\ poked = {}
    /\ firedClear = 0
    /\ bufPosted = "none"
    /\ totalWritten = 0
    /\ faded = NoFade

(***************************************************************************)
(* Payloads and the big-endian float reader (Buffer.readFloatBE).          *)
(* A payload is a sequence of bytes; offset i of the code is element i+1.  *)
(* A float is kept as its IEEE-754 single fields: sign s, biased exponent  *)
(* e, mantissa m.                                                          *)
(***************************************************************************)
\* 4-byte groups the payloads are built from
GroupHalf == <<63, 0, 0, 0>>          \* 0x3F000000 =  0.5
GroupNegQuarter == <<190, 128, 0, 0>> \* 0xBE800000 = -0.25
GroupOne == <<63, 128, 0, 0>>         \* 0x3F800000 =  1.0
GroupNaN == <<127, 192, 0, 0>>        \* 0x7FC00000 =  NaN

\* the bytes a payload may end with after its last complete group
TailBytes == <<62, 128, 0>>

Zeros(n) == [i \in 1..n |-> 0]

RECURSIVE Flatten(_)
Flatten(groups) ==
    IF groups = <<>> THEN <<>> ELSE Head(groups) \o Flatten(Tail(groups))

GroupSeqs(groups, maxGroups) == UNION {[1..n -> groups] : n \in 0..maxGroups}

\* payloads with a header of headerLen bytes followed by up to maxGroups
\* groups and a tail of t bytes, and payloads cut inside the header
Payloads(headerLen, groups, maxGroups, tails) ==
    {Zeros(headerLen) \o Flatten(g) \o SubSeq(TailBytes, 1, t) :
        g \in GroupSeqs(groups, maxGroups), t \in tails}
    \cup {Zeros(n) : n \in {0, 5, headerLen - 1}}

\* Buffer.readFloatBE(offset): the four bytes at offset .. offset+3, most
\* significant first; ERR_OUT_OF_RANGE when they are not all inside the buffer
RangeError == [error |-> "ERR_OUT_OF_RANGE"]

readFloatLE(matrixData, offset) ==
    IF offset + 4 > Len(matrixData) THEN RangeError
    ELSE LET b0 == matrixData[offset + 4]
             b1 == matrixData[offset + 3]
             b2 == matrixData[offset + 2]
             b3 == matrixData[offset + 1]
         IN [s |-> b0 \div 128,
             e |-> (b0 % 128) * 2 + b1 \div 128,
             m |-> (b1 % 128) * 65536 + b2 * 256 + b3]

readFloatBE(matrixData, offset) ==
    IF offset + 4 > Len(matrixData) THEN RangeError
    ELSE LET b0 == matrixData[offset + 1]
             b1 == matrixData[offset + 2]
             b2 == matrixData[offset + 3]
             b3 == matrixData[offset + 4]
         IN [s |-> b0 \div 128,
             e |-> (b0 % 128) * 2 + b1 \div 128,
             m |-> (b1 % 128) * 65536 + b2 * 256 + b3]

\* The decoding loops run i = 0, 4, 8, ... and skip (continue) every
\* i < skipCount: the first offset they read is the first multiple of 4 that
\* is not below skipCount.
FirstReadOffset(skipCount) == 4 * ((skipCount + 3) \div 4)

IsNaN(value) == value.e = 255 /\ value.m # 0

\* Math.abs(value) < 1 (false for NaN): the exponent is below that of 1.0
AbsBelowHalf(value) == value.e < 126
AbsBelowOne(value) == value.e < 127

(***************************************************************************)
(* The conversion of a float sample to 16-bit PCM, the same expression in  *)
(* convertFloat32ToInt16 of sRtin.js and in saveAudioFile of UDP.js,       *)
(* UDPdown.js and TCP.js                                                   *)
(***************************************************************************)
\* A finite float is (-1)^s * sig * 2^(-shift): sig = 2^23 + m and
\* shift = 150 - e for a normal number, sig = m and shift = 149 for a
\* subnormal one.
Significand(value) == IF value.e = 0 THEN value.m ELSE 8388608 + value.m

Shift(value) == IF value.e = 0 THEN 149 ELSE 150 - value.e

\* sig * 32767 = ScaledHigh(sig) * 2^15 + ScaledLow(sig), 0 <= ScaledLow < 2^15
\* (the product itself does not fit TLC's 32-bit integers)
ScaledHigh(sig) == sig + ((-sig) \div 32768)

ScaledLow(sig) == (-sig) % 32768

\* Math.round(value * 32767): Math.round(x) is floor(x + 1/2).  The product
\* is exact in double precision, so the result is
\*    floor(( sig * 32767 + 2^(shift-1)) / 2^shift)   for s = 0
\*    floor((-sig * 32767 + 2^(shift-1)) / 2^shift)   for s = 1
\* A float with e >= 128 has magnitude >= 2: the product is beyond the 16-bit
\* range whatever the significand.
RoundTimes32767(value) ==
    LET d == Shift(value)
        q == ScaledHigh(Significand(value))
        r == ScaledLow(Significand(value))
    IN IF value.e >= 128 THEN (IF value.s = 1 THEN -65534 ELSE 65534)
       ELSE IF d >= 40 THEN 0
       ELSE IF value.s = 0
       THEN (q + 2 ^ (d - 16)) \div (2 ^ (d - 15))
       ELSE (2 ^ (d - 16) - q - (IF r > 0 THEN 1 ELSE 0)) \div (2 ^ (d - 15))

Clamp16(x) == IF x < -32768 THEN -32768 ELSE IF x > 32767 THEN 32767 ELSE x

\* the conversion without its Math.max / Math.min
ToInt16Unsaturated(value) ==
    IF IsNaN(value) THEN 0 ELSE RoundTimes32767(value)

\* int16Data[i] = Math.max(-32768, Math.min(32767, Math.round(value * 32767))):
\* Math.round, Math.min and Math.max hand a NaN on, and an Int16Array stores
\* NaN as 0
ToInt16(value) ==
    IF IsNaN(value) THEN 0 ELSE Clamp16(RoundTimes32767(value))

(***************************************************************************)
(* UDP.js                                                                  *)
(***************************************************************************)
\* skipCount of UDP.js: 3 * 4 bytes
UdpSkipCount == 12

\* the loop of convertMatrixToFloat32 from offset i on (i a multiple of 4):
\* one {index, value} per accepted group; a read error ends the loop
RECURSIVE UdpDecodeFrom(_, _, _)
UdpDecodeFrom(matrixData, i, floatData) ==
    IF ~(i < Len(matrixData) - 3) THEN floatData
    ELSE IF i < UdpSkipCount THEN UdpDecodeFrom(matrixData, i + 4, floatData)
    ELSE LET value == readFloatBE(matrixData, i)
         IN IF value = RangeError THEN floatData
            ELSE IF AbsBelowOne(value)
            THEN UdpDecodeFrom(matrixData, i + 4,
                     Append(floatData, [index |-> Len(floatData), value |-> value]))
            ELSE UdpDecodeFrom(matrixData, i + 4, floatData)

\* lastValue / lastIndex: null before the first accepted sample
NullLast == [isNull |-> TRUE, value |-> [s |-> 0, e |-> 0, m |-> 0], index |-> 0]
Last(value, index) == [isNull |-> FALSE, value |-> value, index |-> index]

\* the continuity check between chunks: the difference between lastValue and
\* the first value of the chunk is computed and nothing is done with it
UdpAfterContinuityCheckSmoothed(floatData, last) ==
    IF ~last.isNull /\ Len(floatData) > 0
    THEN [floatData EXCEPT ![1] = [index |-> 0, value |-> last.value]]
    ELSE floatData
UdpAfterContinuityCheck(floatData, last) == floatData

\* Math.abs(lastFloatValue) < 1e+20 (1e20 lies between 2^66 and 2^67)
AbsBelow1e20(value) == value.e < 127 + 66

\* the update of lastValue and lastIndex at the end of the function
UdpLastAfter(floatData, last) ==
    IF Len(floatData) > 0 /\ AbsBelow1e20(floatData[Len(floatData)].value)
    THEN Last(floatData[Len(floatData)].value, Len(floatData) - 1)
    ELSE last

\* convertMatrixToFloat32 of UDP.js called with lastValue / lastIndex = last:
\* the array it returns and the continuity state it leaves
UdpConvertMatrixToFloat32(matrixData, last) ==
    LET floatData == UdpDecodeFrom(matrixData, FirstReadOffset(UdpSkipCount), <<>>)
    IN [floatData |-> UdpAfterContinuityCheck(floatData, last),
        last |-> UdpLastAfter(floatData, last)]

\* floatData.map(item => item.value)
Values(floatData) == [i \in 1..Len(floatData) |-> floatData[i].value]

NoStop == [result |-> "none", held |-> <<>>]

BIT_DEPTH == 16

CHANNELS == 1

UDP_INPUT_SAMPLE_RATE == 44100

NoSession == [open |-> FALSE, fed |-> <<>>]

NoFile == [written |-> FALSE, sampleRate |-> 0, channels |-> 0, bitDepth |-> 0,
           data |-> <<>>, dataSize |-> 0]

\* the file wav.FileWriter holds once int16Data has been piped into it:
\* Buffer.from(int16Data.buffer) has BIT_DEPTH / 8 bytes per element
WavFile(int16Data, sampleRate) ==
    [written |-> TRUE, sampleRate |-> sampleRate, channels |-> CHANNELS,
     bitDepth |-> BIT_DEPTH, data |-> int16Data,
     dataSize |-> Len(int16Data) * (BIT_DEPTH \div 8)]

\* a conversion loop that stops one element short
UdpPcmDataDropsLast(audioData) ==
    [i \in 1..(Len(audioData) - 1) |-> ToInt16(audioData[i])]

\* int16Data of saveAudioFile
UdpPcmData(audioData) == [i \in 1..Len(audioData) |-> ToInt16(audioData[i])]

\* saveAudioFile with its default options
UdpSaveAudioFile(audioData) == WavFile(UdpPcmData(audioData), UDP_INPUT_SAMPLE_RATE)

\* the hand-offs with the recorder served before the buffer writer
FanOutRecorderFirst(isActive) ==
    (IF isActive THEN <<"Recorder">> ELSE <<>>)
        \o <<"DoubleBufferWriter", "writeFloatDataToFile">>

\* the hand-offs of the message handler: Max.outlet('writeAudioChunk', ...)
\* to the buffer writer, then recordingAudio.push if recording, then
\* writeFloatDataToFile
FanOut(isActive) ==
    <<"DoubleBufferWriter">> \o (IF isActive THEN <<"Recorder">> ELSE <<>>)
        \o <<"writeFloatDataToFile">>

UdpInit ==
    /\ recording = FALSE
    /\ recordingAudio = <<>>
    /\ chunkCounter = 0
    /\ lastValue = NullLast
    /\ lastIndex = NullLast.index
    /\ saving = <<>>
    /\ outlet = <<>>
    /\ udpPosted = "none"
    /\ udpEvent = "none"
    /\ sessionOpen = FALSE
    /\ lastStop = NoStop
    /\ discarded = <<>>
    /\ fed = <<>>
    /\ savingFed = <<>>
    /\ wavFile = NoFile
    /\ fileSession = NoSession
    /\ fanout = <<>>
    /\ udpServer = "binding"
    /\ received = 0

\* server.bind(port) settles: the 'listening' handler posts the address, or
\* the 'error' handler posts the error and returns
UdpBind(ok) ==
    /\ udpServer = "binding"
    /\ udpServer' = IF ok THEN "listening" ELSE "failed"
    /\ udpPosted' = IF ok THEN "UDP server listening" ELSE "Server error"
    /\ udpEvent' = IF ok THEN "listening" ELSE "error"
    /\ UNCHANGED <<recording, recordingAudio, chunkCounter, lastValue, lastIndex,
                   saving, outlet, sessionOpen, lastStop, discarded, fed, savingFed,
                   wavFile, fileSession, fanout, received>>
    /\ UNCHANGED <<varsBuf, varsAsr, varsTcp, varsDec, varsPcm, varsRes, varsPort>>

\* a handler without the early return
NeverEmpty(floatData) == FALSE

\* floatData.length === 0, the test of the handler's early return
IsEmpty(floatData) == Len(floatData) = 0

\* a receive path that is held up while a file write is in flight
DispatchedWhenNoWrite(inFlight) == inFlight = <<>>

\* whether the 'message' handler is run for a datagram that has arrived,
\* given the stopRecording calls in flight: each of them is suspended at
\* 'await saveAudioFile(...)' and has returned to the event loop, and the
\* file is written by asynchronous stream operations
Dispatched(inFlight) == TRUE

\* server.on('message'): a datagram reaches the handler only through a
\* bound socket
UdpMessage(matrixData) ==
    LET call == UdpConvertMatrixToFloat32(matrixData, lastValue)
        floatData == call.floatData
    IN /\ udpServer = "listening"
       /\ Dispatched(saving)
       /\ chunkCounter < MaxPackets
       /\ udpEvent' = "message"
       /\ lastValue' = call.last
       /\ lastIndex' = call.last.index
       /\ received' = Len(floatData)
       /\ IF IsEmpty(floatData)
          THEN /\ fanout' = <<>>
               /\ UNCHANGED <<recordingAudio, chunkCounter, outlet, fed>>
          ELSE /\ outlet' = <<"writeAudioChunk", Values(floatData)>>
               /\ fanout' = FanOut(recording)
               /\ fed' = IF sessionOpen THEN fed \o Values(floatData) ELSE fed
               /\ recordingAudio' = IF recording
                                    THEN recordingAudio \o Values(floatData)
                                    ELSE recordingAudio
               /\ chunkCounter' = chunkCounter + 1
       /\ UNCHANGED <<recording, saving, udpPosted, sessionOpen, lastStop, discarded,
                       savingFed, wavFile, fileSession, udpServer>>
       /\ UNCHANGED <<varsBuf, varsAsr, varsTcp, varsDec, varsPcm, varsRes, varsPort>>

UdpStartRecording ==
    /\ recordingAudio' = <<>>
    /\ recording' = TRUE
    /\ udpPosted' = "Recording started."
    /\ udpEvent' = "startRecording"
    /\ sessionOpen' = TRUE
    /\ fed' = <<>>
    /\ UNCHANGED <<chunkCounter, lastValue, lastIndex, saving, outlet, lastStop, discarded,
                   savingFed, wavFile, fileSession, fanout, udpServer, received>>
    /\ UNCHANGED <<varsBuf, varsAsr, varsTcp, varsDec, varsPcm, varsRes, varsPort>>

\* stopRecording up to its await: the empty case returns at once;
\* otherwise saveAudioFile takes the samples and the handler is suspended
UdpStopRecording ==
    /\ udpEvent' = "stopRecording"
    /\ sessionOpen' = FALSE
    /\ IF Len(recordingAudio) = 0
       THEN /\ udpPosted' = "No audio data to save."
            /\ lastStop' = [result |-> "empty", held |-> <<>>]
            /\ UNCHANGED <<saving, discarded, savingFed>>
       ELSE /\ Len(saving) < MaxSaving
            /\ saving' = Append(saving, recordingAudio)
            /\ savingFed' = Append(savingFed, [open |-> sessionOpen, fed |-> fed])
            /\ UNCHANGED <<udpPosted, lastStop, discarded>>
    /\ UNCHANGED <<recording, recordingAudio, chunkCounter, lastValue, lastIndex, outlet,
                   fed, wavFile, fileSession, fanout, udpServer, received>>
    /\ UNCHANGED <<varsBuf, varsAsr, varsTcp, varsDec, varsPcm, varsRes, varsPort>>

\* what remains of recordingAudio once the samples handed to saveAudioFile
\* are set aside
NotHeld(audio, held) ==
    IF Len(audio) >= Len(held) /\ SubSeq(audio, 1, Len(held)) = held
    THEN SubSeq(audio, Len(held) + 1, Len(audio))
    ELSE audio

\* recordingAudio after saveAudioFile has returned, whether the file was
\* written (ok) or the error was caught and posted
AfterSave(audio, ok) == <<>>

RemoveAt(seq, i) == SubSeq(seq, 1, i - 1) \o SubSeq(seq, i + 1, Len(seq))

\* saveAudioFile settles and stopRecording resumes after its await
UdpStopRecordingResume(i, ok) ==
    /\ i \in 1..Len(saving)
    /\ saving' = RemoveAt(saving, i)
    /\ lastStop' = [result |-> IF ok THEN "saved" ELSE "failed", held |-> saving[i]]
    /\ discarded' = NotHeld(recordingAudio, saving[i])
    /\ recordingAudio' = AfterSave(recordingAudio, ok)
    /\ recording' = FALSE
    /\ udpPosted' = "Recording stopped and saved."
    /\ udpEvent' = "stopRecordingResume"
    /\ savingFed' = RemoveAt(savingFed, i)
    /\ wavFile' = IF ok THEN UdpSaveAudioFile(saving[i]) ELSE wavFile
    /\ fileSession' = IF ok THEN savingFed[i] ELSE fileSession
    /\ UNCHANGED <<chunkCounter, lastValue, lastIndex, outlet, sessionOpen, fed, fanout,
                   udpServer, received>>
    /\ UNCHANGED <<varsBuf, varsAsr, varsTcp, varsDec, varsPcm, varsRes, varsPort>>

UdpIdle == UdpInit

\* the datagrams that arrive: whole groups behind the header, one datagram
\* with two bytes behind its last group, and datagrams cut inside the header
UdpPackets ==
    Payloads(UdpSkipCount, {GroupHalf, GroupNegQuarter, GroupNaN}, MaxPacketGroups, {0})
    \cup {Zeros(UdpSkipCount) \o GroupHalf \o SubSeq(TailBytes, 1, 2)}

NextUdp ==
    \/ \E ok \in BOOLEAN : UdpBind(ok)
    \/ \E matrixData \in UdpPackets : UdpMessage(matrixData)
    \/ UdpStartRecording
    \/ UdpStopRecording
    \/ \E i \in 1..MaxSaving, ok \in BOOLEAN : UdpStopRecordingResume(i, ok)

(***************************************************************************)
(* code/sRtin.js                                                           *)
(***************************************************************************)
INPUT_SAMPLE_RATE == 44100

TARGET_SAMPLE_RATE == 16000

\* The number of samples the message handler slices off audioBuffer per
\* frame.  The code uses TARGET_SAMPLE_RATE (16000) for it; the model keeps
\* the two rates and scales this length down.
targetFrameSize == 3

\* skipCount of sRtin.js: 131 * 4 bytes
AsrSkipCount == 524

\* Math.abs(value) < 10 (false for NaN); 10 = 1.25 * 2^3: e = 130, m = 2^21
AbsBelowTen(value) == value.e < 130 \/ (value.e = 130 /\ value.m < 2097152)

\* the loop of convertMatrixToFloat32 of sRtin.js from offset i on
RECURSIVE AsrDecodeFrom(_, _, _)
AsrDecodeFrom(matrixData, i, floatData) ==
    IF ~(i < Len(matrixData) - 3) THEN floatData
    ELSE IF i < AsrSkipCount THEN AsrDecodeFrom(matrixData, i + 4, floatData)
    ELSE LET value == readFloatBE(matrixData, i)
         IN IF value = RangeError THEN floatData
            ELSE IF AbsBelowTen(value)
            THEN AsrDecodeFrom(matrixData, i + 4, Append(floatData, value))
            ELSE AsrDecodeFrom(matrixData, i + 4, floatData)

AsrConvertMatrixToFloat32(matrixData) ==
    AsrDecodeFrom(matrixData, FirstReadOffset(AsrSkipCount), <<>>)

convertFloat32ToInt16(float32Array) ==
    [i \in 1..Len(float32Array) |-> ToInt16(float32Array[i])]

\* the length with Math.floor in the place of Math.round
NewLengthFloored(length, fromSampleRate, toSampleRate) ==
    (length * toSampleRate) \div fromSampleRate

\* the length with one output sample too many
NewLengthOneMore(length, fromSampleRate, toSampleRate) ==
    (2 * length * toSampleRate + fromSampleRate) \div (2 * fromSampleRate) + 1

\* newLength of downsampleAudio: Math.round(length / (fromRate / toRate))
NewLength(length, fromSampleRate, toSampleRate) ==
    (2 * length * toSampleRate + fromSampleRate) \div (2 * fromSampleRate)

\* index of downsampleAudio for output i: Math.floor(i * sampleRateRatio)
SourceIndex(i, fromSampleRate, toSampleRate) ==
    (i * fromSampleRate) \div toSampleRate

\* the indices of audioData the loop body reads for output i: index, and
\* index + 1 in the interpolating branch
IndicesRead(length, i, fromSampleRate, toSampleRate) ==
    LET index == SourceIndex(i, fromSampleRate, toSampleRate)
    IN IF index + 1 < length THEN {index, index + 1} ELSE {index}

\* the indices one call reads: those of the outputs 0 .. newLength - 1
ReadsOf(length, fromSampleRate, toSampleRate) ==
    UNION {IndicesRead(length, k - 1, fromSampleRate, toSampleRate) :
              k \in 1..NewLength(length, fromSampleRate, toSampleRate)}

\* the sample with zero padding where the chunk has no sample after index
DownsampledAtZeroPadded(audioData, i, fromSampleRate, toSampleRate) ==
    LET index == SourceIndex(i, fromSampleRate, toSampleRate)
        rem == (i * fromSampleRate) % toSampleRate
    IN IF index + 1 < Len(audioData)
       THEN (2 * (audioData[index + 1] * (toSampleRate - rem)
                  + audioData[index + 2] * rem) + toSampleRate)
            \div (2 * toSampleRate)
       ELSE 0

\* downsampledData[i] of downsampleAudio (i from 0): position = i * ratio,
\* index = floor(position), fraction = position - index; an index past the
\* end reads undefined, which the Int16Array stores as 0
DownsampledAt(audioData, i, fromSampleRate, toSampleRate) ==
    LET index == SourceIndex(i, fromSampleRate, toSampleRate)
        rem == (i * fromSampleRate) % toSampleRate
    IN IF index + 1 < Len(audioData)
       THEN (2 * (audioData[index + 1] * (toSampleRate - rem)
                  + audioData[index + 2] * rem) + toSampleRate)
            \div (2 * toSampleRate)
       ELSE IF index < Len(audioData) THEN audioData[index + 1] ELSE 0

downsampleAudio(audioData, fromSampleRate, toSampleRate) ==
    [k \in 1..NewLength(Len(audioData), fromSampleRate, toSampleRate) |->
        DownsampledAt(audioData, k - 1, fromSampleRate, toSampleRate)]

\* what the recognizer answers to one acceptWaveform call
RecAnswers ==
    {[final |-> TRUE, text |-> ""], [final |-> TRUE, text |-> "one"],
     [final |-> FALSE, text |-> ""], [final |-> FALSE, text |-> "two"],
     [final |-> FALSE, text |-> "play"], [final |-> FALSE, text |-> "\\bplay\\b"]}

\* /\\b(play|stop|pause|resume|continue|both)\\b/i on the texts of the model:
\* in the regular expression literal \\ is a backslash and b the letter, so
\* the word has to stand between two "\b" character pairs
IsCommand(text) == text = "\\bplay\\b"

\* processAudioWithVosk: the messages sent to the outlet, and the stored partial
VoskOutlets(answer, partial) ==
    IF answer.final
    THEN IF answer.text # ""
         THEN <<answer.text>> \o (IF partial # "" THEN <<partial>> ELSE <<>>)
         ELSE <<>>
    ELSE IF answer.text # "" /\ IsCommand(answer.text) THEN <<answer.text>> ELSE <<>>

\* the stored partial kept after it was sent behind a final result
VoskPartialKeptAfterFinal(answer, partial) ==
    IF answer.final
    THEN partial
    ELSE IF answer.text # "" /\ ~IsCommand(answer.text) THEN answer.text ELSE partial

VoskPartial(answer, partial) ==
    IF answer.final
    THEN IF answer.text # "" THEN "" ELSE partial
    ELSE IF answer.text # "" /\ ~IsCommand(answer.text) THEN answer.text ELSE partial

\* one entry of partialLog
PartialEvent(op, text) == [op |-> op, text |-> text]

\* the stored partial a handler finds when it starts
HeldAtStart(partial) ==
    IF partial # "" THEN <<PartialEvent("held", partial)>> ELSE <<>>

\* if (lastPartialResult !== '') { Max.outlet(...); lastPartialResult = ''; }
EmitStored(partial) ==
    IF partial # "" THEN <<PartialEvent("emit", partial)>> ELSE <<>>

\* processAudioWithVosk, as events: a final result with text sent, the stored
\* partial sent behind it, a partial stored
VoskEvents(answer, partial) ==
    IF answer.final
    THEN IF answer.text # ""
         THEN <<PartialEvent("final", answer.text)>> \o EmitStored(partial)
         ELSE <<>>
    ELSE IF answer.text # "" /\ ~IsCommand(answer.text)
         THEN <<PartialEvent("store", answer.text)>>
         ELSE <<>>

\* the state of the while loop of the message handler
LoopState(buf, rec, partial, outs, tk, fw, log) ==
    [audioBuffer |-> buf, recordingAudio |-> rec, lastPartialResult |-> partial,
     outlets |-> outs, taken |-> tk, forwarded |-> fw, log |-> log]

\* Array.prototype.slice(start, end) with 0 <= start: the elements at
\* start .. end-1 that exist
Slice(array, start, end) ==
    SubSeq(array, start + 1, IF end > Len(array) THEN Len(array) ELSE end)

\* the condition of the while loop: audioBuffer.length >= TARGET_SAMPLE_RATE
HasFrameOffByOne(buf) == Len(buf) > targetFrameSize
HasFrame(buf) == Len(buf) >= targetFrameSize

\* audioBuffer.slice(0, TARGET_SAMPLE_RATE)
FrameOf(buf) == Slice(buf, 0, targetFrameSize)

\* audioBuffer.slice(TARGET_SAMPLE_RATE)
RestOfSkipsOne(buf) == Slice(buf, targetFrameSize + 1, Len(buf))
RestOf(buf) == Slice(buf, targetFrameSize, Len(buf))

\* what is passed to rec.acceptWaveform for a frame
ForwardedRaw(chunk) == chunk
Forwarded(chunk) == downsampleAudio(chunk, INPUT_SAMPLE_RATE, TARGET_SAMPLE_RATE)

\* while (audioBuffer.length >= TARGET_SAMPLE_RATE) { slice, downsample,
\* record, recognize }; answers[n] is the recognizer's answer to the n-th frame
RECURSIVE FrameLoop(_, _, _)
FrameLoop(st, answers, n) ==
    IF ~HasFrame(st.audioBuffer) \/ n > Len(answers) THEN st
    ELSE LET chunk == FrameOf(st.audioBuffer)
             downsampledData == Forwarded(chunk)
         IN FrameLoop(
                LoopState(RestOf(st.audioBuffer),
                          IF isRecording THEN st.recordingAudio \o downsampledData
                          ELSE st.recordingAudio,
                          VoskPartial(answers[n], st.lastPartialResult),
                          st.outlets \o VoskOutlets(answers[n], st.lastPartialResult),
                          Append(st.taken, chunk),
                          Append(st.forwarded, downsampledData),
                          st.log \o VoskEvents(answers[n], st.lastPartialResult)),
                answers, n + 1)

AsrInit ==
    /\ audioBuffer = <<>>
    /\ isRecording = FALSE
    /\ asrRecordingAudio = <<>>
    /\ lastPartialResult = ""
    /\ asrSaving = <<>>
    /\ asrOutlets = <<>>
    /\ asrPosted = "none"
    /\ pushed = <<>>
    /\ taken = <<>>
    /\ forwarded = <<>>
    /\ asrPackets = 0
    /\ asrEvent = "none"
    /\ asrServer = "listening"
    /\ partialLog = <<>>

AsrIdle == AsrInit

\* server.on('message')
AsrMessage(matrixData, answers) ==
    \E floatData \in {AsrConvertMatrixToFloat32(matrixData)} :
    \E int16Data \in {convertFloat32ToInt16(floatData)} :
    \E st \in {FrameLoop(LoopState(audioBuffer \o int16Data, asrRecordingAudio,
                                   lastPartialResult, <<>>, taken, forwarded,
                                   HeldAtStart(lastPartialResult)),
                         answers, 1)} :
       /\ asrServer = "listening"
       /\ asrPackets < MaxAsrPackets
       /\ asrPackets' = asrPackets + 1
       /\ asrEvent' = "message"
       /\ IF Len(floatData) = 0
          THEN UNCHANGED <<audioBuffer, asrRecordingAudio, lastPartialResult,
                           asrOutlets, pushed, taken, forwarded, partialLog>>
          ELSE /\ audioBuffer' = st.audioBuffer
               /\ asrRecordingAudio' = st.recordingAudio
               /\ lastPartialResult' = st.lastPartialResult
               /\ asrOutlets' = st.outlets
               /\ pushed' = pushed \o int16Data
               /\ taken' = st.taken
               /\ forwarded' = st.forwarded
               /\ partialLog' = st.log
       /\ UNCHANGED <<isRecording, asrSaving, asrPosted, asrServer>>
       /\ UNCHANGED <<varsBuf, varsUdp, varsTcp, varsDec, varsPcm, varsRes, varsPort>>

\* startRecording under the rule of the first file to be written: the
\* sequence is emptied whatever the session's state
AudioAfterStartAlwaysReset(wasRecording, audio) == <<>>

\* recordingAudio after startRecording: emptied when no session was active,
\* left as it is when one was ("Already recording.")
AudioAfterStart(wasRecording, audio) == IF wasRecording THEN audio ELSE <<>>

AsrStartRecording ==
    /\ isRecording' = TRUE
    /\ asrRecordingAudio' = AudioAfterStart(isRecording, asrRecordingAudio)
    /\ asrPosted' = IF ~isRecording THEN "Recording started."
                    ELSE "Already recording."
    /\ asrEvent' = "startRecording"
    /\ UNCHANGED <<audioBuffer, lastPartialResult, asrSaving, asrOutlets, pushed,
                   taken, forwarded, asrPackets, asrServer, partialLog>>
    /\ UNCHANGED <<varsBuf, varsUdp, varsTcp, varsDec, varsPcm, varsRes, varsPort>>

\* stopRecording up to its await
AsrStopRecording ==
    /\ IF isRecording
       THEN /\ isRecording' = FALSE
            /\ IF Len(asrRecordingAudio) = 0
               THEN /\ asrPosted' = "No audio data to save."
                    /\ UNCHANGED asrSaving
               ELSE /\ Len(asrSaving) < MaxSaving
                    /\ asrSaving' = Append(asrSaving, asrRecordingAudio)
                    /\ UNCHANGED asrPosted
       ELSE /\ asrPosted' = "Not currently recording."
            /\ UNCHANGED <<isRecording, asrSaving>>
    /\ asrEvent' = "stopRecording"
    /\ UNCHANGED <<audioBuffer, asrRecordingAudio, lastPartialResult, asrOutlets,
                   pushed, taken, forwarded, asrPackets, asrServer, partialLog>>
    /\ UNCHANGED <<varsBuf, varsUdp, varsTcp, varsDec, varsPcm, varsRes, varsPort>>

\* saveAudioFile settles and stopRecording resumes after its await
AsrStopRecordingResume(i, ok) ==
    /\ i \in 1..Len(asrSaving)
    /\ asrSaving' = RemoveAt(asrSaving, i)
    /\ asrRecordingAudio' = <<>>
    /\ asrPosted' = IF ok THEN "Recording stopped and saved."
                    ELSE "Error saving audio file; Recording stopped and saved."
    /\ asrEvent' = "stopRecordingResume"
    /\ UNCHANGED <<audioBuffer, isRecording, lastPartialResult, asrOutlets, pushed,
                   taken, forwarded, asrPackets, asrServer, partialLog>>
    /\ UNCHANGED <<varsBuf, varsUdp, varsTcp, varsDec, varsPcm, varsRes, varsPort>>

\* process.on('SIGINT'): server.close(), stopRecording() up to its await when
\* a session is active, then the stored partial is sent and emptied. Once the
\* socket is closed a further server.close() throws before any other
\* statement of the handler runs
AsrSigint ==
    /\ asrServer = "listening"
    /\ asrServer' = "closed"
    /\ IF isRecording
       THEN /\ isRecording' = FALSE
            /\ IF Len(asrRecordingAudio) = 0
               THEN /\ asrPosted' = "No audio data to save."
                    /\ UNCHANGED asrSaving
               ELSE /\ Len(asrSaving) < MaxSaving
                    /\ asrSaving' = Append(asrSaving, asrRecordingAudio)
                    /\ asrPosted' = "Stopping UDP server..."
       ELSE /\ asrPosted' = "Stopping UDP server..."
            /\ UNCHANGED <<isRecording, asrSaving>>
    /\ asrOutlets' = IF lastPartialResult # "" THEN <<lastPartialResult>> ELSE <<>>
    /\ partialLog' = HeldAtStart(lastPartialResult)
                        \o <<PartialEvent("shutdown", "")>>
                        \o EmitStored(lastPartialResult)
    /\ lastPartialResult' = ""
    /\ asrEvent' = "SIGINT"
    /\ UNCHANGED <<audioBuffer, asrRecordingAudio, pushed, taken, forwarded,
                   asrPackets>>
    /\ UNCHANGED <<varsBuf, varsUdp, varsTcp, varsDec, varsPcm, varsRes, varsPort>>

\* the n groups 0.5, -0.25, 1.0, 0.5, ... of a datagram
PatternGroups(n) ==
    [i \in 1..n |-> IF i % 3 = 1 THEN GroupHalf
                    ELSE IF i % 3 = 2 THEN GroupNegQuarter ELSE GroupOne]

\* the datagrams that arrive at sRtin.js: a header and up to MaxAsrGroups
\* groups; one with an invalid group and a 2-byte tail; one cut in the header
AsrPackets ==
    {Zeros(AsrSkipCount) \o Flatten(PatternGroups(n)) : n \in 0..MaxAsrGroups}
    \cup {Zeros(AsrSkipCount) \o GroupNaN \o GroupNegQuarter \o SubSeq(TailBytes, 1, 2),
          Zeros(AsrSkipCount - 1)}

\* the frames the handler slices off when int16Data arrives
FramesOf(int16Data) == (Len(audioBuffer) + Len(int16Data)) \div targetFrameSize

NextAsr ==
    \/ \E matrixData \in AsrPackets :
         \E answers \in [1..FramesOf(AsrConvertMatrixToFloat32(matrixData)) -> RecAnswers] :
           AsrMessage(matrixData, answers)
    \/ AsrStartRecording
    \/ AsrStopRecording
    \/ \E i \in 1..MaxSaving, ok \in BOOLEAN : AsrStopRecordingResume(i, ok)
    \/ AsrSigint

(***************************************************************************)
(* TCP.js                                                                  *)
(***************************************************************************)
\* skipCount of TCP.js: 74 * 4 bytes
TcpSkipCount == 296

\* how a call ends: with the value it returns, or with the error it throws
Returned(floatData) == [error |-> "none", floatData |-> floatData]
Thrown(err) == [error |-> err.error, floatData |-> <<>>]

\* the loop of convertMatrixToFloat32 of TCP.js from offset i on: it runs
\* while i < matrixData.length, reads without a try, and keeps every value;
\* the result is the floatData array, or the error readFloatBE threw
RECURSIVE TcpDecodeFrom(_, _, _)
TcpDecodeFrom(matrixData, i, floatData) ==
    IF ~(i < Len(matrixData)) THEN Returned(floatData)
    ELSE LET value == readFloatBE(matrixData, i)
         IN IF value = RangeError THEN Thrown(value)
            ELSE TcpDecodeFrom(matrixData, i + 4,
                     Append(floatData, [index |-> Len(floatData), value |-> value]))

TcpConvertMatrixToFloat32(matrixData) ==
    TcpDecodeFrom(matrixData, FirstReadOffset(TcpSkipCount), <<>>)

\* lines writeFloatDataToFile appends: the items joined by '\n', plus '\n'
LinesAppended(floatData) == IF Len(floatData) = 0 THEN 1 ELSE Len(floatData)

TcpInit ==
    /\ tcpRecordingAudio = <<>>
    /\ tcpChunkCounter = 0
    /\ tcpSaving = <<>>
    /\ tcpFileLines = 0
    /\ tcpAlive = TRUE
    /\ tcpFault = "none"
    /\ tcpPosted = "none"

TcpIdle == TcpInit

\* An exception that leaves a handler with no try around it is an uncaught
\* exception: the script installs no 'uncaughtException' listener, so node
\* prints it and exits.
AliveAfterUncaught == FALSE

\* socket.on('data'): decode, record, append to float_data.txt, count.
\* appendOk: whether fs.appendFileSync succeeds this time.
TcpData(matrixData, appendOk) ==
    \E call \in {TcpConvertMatrixToFloat32(matrixData)} :
       /\ tcpAlive
       /\ tcpChunkCounter < MaxTcpChunks
       /\ IF call.error # "none"
          THEN /\ tcpFault' = "RangeError in readFloatBE"
               /\ tcpAlive' = AliveAfterUncaught
               /\ UNCHANGED <<tcpRecordingAudio, tcpChunkCounter, tcpFileLines>>
          ELSE /\ tcpRecordingAudio' = tcpRecordingAudio \o Values(call.floatData)
               /\ IF appendOk
                  THEN /\ tcpFileLines' = tcpFileLines + LinesAppended(call.floatData)
                       /\ tcpChunkCounter' = tcpChunkCounter + 1
                       /\ tcpFault' = "none"
                       /\ UNCHANGED tcpAlive
                  ELSE /\ tcpFault' = "Error in appendFileSync"
                       /\ tcpAlive' = AliveAfterUncaught
                       /\ UNCHANGED <<tcpChunkCounter, tcpFileLines>>
       /\ UNCHANGED <<tcpSaving, tcpPosted>>
       /\ UNCHANGED <<varsBuf, varsUdp, varsAsr, varsDec, varsPcm, varsRes, varsPort>>

TcpStartRecording ==
    /\ tcpAlive
    /\ tcpRecordingAudio' = <<>>
    /\ tcpPosted' = "Recording started."
    /\ UNCHANGED <<tcpChunkCounter, tcpSaving, tcpFileLines, tcpAlive, tcpFault>>
    /\ UNCHANGED <<varsBuf, varsUdp, varsAsr, varsDec, varsPcm, varsRes, varsPort>>

\* stopRecording up to its await
TcpStopRecording ==
    /\ tcpAlive
    /\ IF Len(tcpRecordingAudio) = 0
       THEN /\ tcpPosted' = "No audio data to save."
            /\ UNCHANGED tcpSaving
       ELSE /\ Len(tcpSaving) < MaxSaving
            /\ tcpSaving' = Append(tcpSaving, tcpRecordingAudio)
            /\ UNCHANGED tcpPosted
    /\ UNCHANGED <<tcpRecordingAudio, tcpChunkCounter, tcpFileLines, tcpAlive, tcpFault>>
    /\ UNCHANGED <<varsBuf, varsUdp, varsAsr, varsDec, varsPcm, varsRes, varsPort>>

\* saveAudioFile settles and stopRecording resumes after its await
TcpStopRecordingResume(i, ok) ==
    /\ tcpAlive
    /\ i \in 1..Len(tcpSaving)
    /\ tcpSaving' = RemoveAt(tcpSaving, i)
    /\ tcpRecordingAudio' = <<>>
    /\ tcpPosted' = "Recording stopped and saved."
    /\ UNCHANGED <<tcpChunkCounter, tcpFileLines, tcpAlive, tcpFault>>
    /\ UNCHANGED <<varsBuf, varsUdp, varsAsr, varsDec, varsPcm, varsRes, varsPort>>

\* the chunks of the byte stream that arrive
TcpChunks ==
    Payloads(TcpSkipCount, {GroupHalf, GroupNaN}, MaxPacketGroups, {0, 2})

NextTcp ==
    \/ \E matrixData \in TcpChunks, appendOk \in BOOLEAN : TcpData(matrixData, appendOk)
    \/ TcpStartRecording
    \/ TcpStopRecording
    \/ \E i \in 1..MaxSaving, ok \in BOOLEAN : TcpStopRecordingResume(i, ok)

(***************************************************************************)
(* code/UDPdown.js: convertMatrixToFloat32                                 *)
(***************************************************************************)
\* skipCount of UDPdown.js: 131 * 4 bytes
DownSkipCount == 524

\* Math.abs(value) < 1e+7 (false for NaN); 1e7 = 2^23 + 1611392: e = 150
AbsBelow1e7(value) == value.e < 150 \/ (value.e = 150 /\ value.m < 1611392)

\* the loop of convertMatrixToFloat32 of UDPdown.js from offset i on
RECURSIVE DownDecodeFrom(_, _, _)
DownDecodeFrom(matrixData, i, floatData) ==
    IF ~(i < Len(matrixData) - 3) THEN floatData
    ELSE IF i < DownSkipCount THEN DownDecodeFrom(matrixData, i + 4, floatData)
    ELSE LET value == readFloatBE(matrixData, i)
         IN IF value = RangeError THEN floatData
            ELSE IF AbsBelow1e7(value)
            THEN DownDecodeFrom(matrixData, i + 4, Append(floatData, value))
            ELSE DownDecodeFrom(matrixData, i + 4, floatData)

\* the discontinuity check: its two branches are empty
DownAfterContinuityCheck(floatData, last) == floatData

DownLastAfter(floatData, last) ==
    IF Len(floatData) > 0 /\ AbsBelow1e20(floatData[Len(floatData)])
    THEN Last(floatData[Len(floatData)], Len(floatData) - 1)
    ELSE last

DownConvertMatrixToFloat32(matrixData, last) ==
    LET floatData == DownDecodeFrom(matrixData, FirstReadOffset(DownSkipCount), <<>>)
    IN [floatData |-> DownAfterContinuityCheck(floatData, last),
        last |-> DownLastAfter(floatData, last)]

(***************************************************************************)
(* The decoders on their own: one payload, one call                        *)
(***************************************************************************)
\* the values the sender puts in a payload
FloatHalf == [s |-> 0, e |-> 126, m |-> 0]           \*  0.5
FloatNegQuarter == [s |-> 1, e |-> 125, m |-> 0]     \* -0.25
FloatTenth == [s |-> 0, e |-> 123, m |-> 5033165]    \*  0.1 (0x3DCCCCCD)
FloatOne == [s |-> 0, e |-> 127, m |-> 0]            \*  1.0
FloatSixteen == [s |-> 0, e |-> 131, m |-> 0]        \*  16.0
FloatBig == [s |-> 1, e |-> 151, m |-> 0]            \* -2^24
FloatInfinity == [s |-> 0, e |-> 255, m |-> 0]       \*  Infinity
FloatNaN == [s |-> 0, e |-> 255, m |-> 4194304]      \*  NaN

SampleValues ==
    {FloatHalf, FloatNegQuarter, FloatTenth, FloatOne, FloatSixteen, FloatBig,
     FloatInfinity, FloatNaN}

\* the sender's encoding of one value: its IEEE-754 single bits, most
\* significant byte first (Buffer.writeFloatBE)
writeFloatBE(value) ==
    <<value.s * 128 + value.e \div 2,
      (value.e % 2) * 128 + value.m \div 65536,
      (value.m \div 256) % 256,
      value.m % 256>>

Encoded(sampleSeq) == Flatten([i \in 1..Len(sampleSeq) |-> writeFloatBE(sampleSeq[i])])

\* the inputs: up to MaxGroups encoded values, then 0..3 more bytes, after a
\* full header; or a payload cut one byte before the end of the header
DecodeInputs ==
    [samples : UNION {[1..n -> SampleValues] : n \in 0..MaxGroups},
     tail : 0..3, cut : {FALSE}]
    \cup {[samples |-> <<>>, tail |-> 0, cut |-> TRUE]}

\* the continuity state a decoder may be called with
DecodeLasts == {NullLast, Last(FloatNegQuarter, 0)}

\* the payload of an input for a decoder that skips skipCount bytes
PayloadOf(input, skipCount) ==
    IF input.cut THEN Zeros(skipCount - 1)
    ELSE Zeros(skipCount) \o Encoded(input.samples) \o SubSeq(TailBytes, 1, input.tail)

DecInit ==
    /\ decInput \in DecodeInputs
    /\ decLast \in DecodeLasts
    /\ decoder = "none"
    /\ decoded = Returned(<<>>)
    /\ decLastAfter = NullLast

DecIdle ==
    /\ decInput = [samples |-> <<>>, tail |-> 0, cut |-> FALSE]
    /\ decLast = NullLast
    /\ decoder = "none"
    /\ decoded = Returned(<<>>)
    /\ decLastAfter = NullLast

\* convertMatrixToFloat32 of UDP.js applied to the payload
DecodeUdp ==
    \E call \in {UdpConvertMatrixToFloat32(PayloadOf(decInput, UdpSkipCount), decLast)} :
       /\ decoder = "none"
       /\ decoder' = "UDP.js"
       /\ decoded' = Returned(Values(call.floatData))
       /\ decLastAfter' = call.last
       /\ UNCHANGED <<decInput, decLast>>
       /\ UNCHANGED <<varsBuf, varsUdp, varsAsr, varsTcp, varsPcm, varsRes, varsPort>>

\* convertMatrixToFloat32 of TCP.js applied to the payload
DecodeTcp ==
    \E call \in {TcpConvertMatrixToFloat32(PayloadOf(decInput, TcpSkipCount))} :
       /\ decoder = "none"
       /\ decoder' = "TCP.js"
       /\ decoded' = [call EXCEPT !.floatData = Values(@)]
       /\ UNCHANGED <<decInput, decLast, decLastAfter>>
       /\ UNCHANGED <<varsBuf, varsUdp, varsAsr, varsTcp, varsPcm, varsRes, varsPort>>

\* convertMatrixToFloat32 of sRtin.js applied to the payload
DecodeAsr ==
    /\ decoder = "none"
    /\ decoder' = "sRtin.js"
    /\ decoded' = Returned(AsrConvertMatrixToFloat32(PayloadOf(decInput, AsrSkipCount)))
    /\ UNCHANGED <<decInput, decLast, decLastAfter>>
    /\ UNCHANGED <<varsBuf, varsUdp, varsAsr, varsTcp, varsPcm, varsRes, varsPort>>

\* convertMatrixToFloat32 of UDPdown.js applied to the payload
DecodeDown ==
    \E call \in {DownConvertMatrixToFloat32(PayloadOf(decInput, DownSkipCount), decLast)} :
       /\ decoder = "none"
       /\ decoder' = "UDPdown.js"
       /\ decoded' = Returned(call.floatData)
       /\ decLastAfter' = call.last
       /\ UNCHANGED <<decInput, decLast>>
       /\ UNCHANGED <<varsBuf, varsUdp, varsAsr, varsTcp, varsPcm, varsRes, varsPort>>

NextDec ==
    \/ DecodeUdp
    \/ DecodeTcp
    \/ DecodeAsr
    \/ DecodeDown

(***************************************************************************)
(* The float-to-PCM conversions applied to one sample                      *)
(***************************************************************************)
MaxPcmExponent == 134

\* the samples converted: +-(128 + a) * 2^(e - 134) for a few exponents from
\* far below 1/32767 to far above 1 and fractions a / 128, the zeros, the
\* infinities and NaN
PcmInputs ==
    {[s |-> s, e |-> e, m |-> a * 65536] :
        s \in {0, 1}, e \in {100} \cup (110..MaxPcmExponent), a \in {0, 1, 64, 127}}
    \cup {[s |-> 0, e |-> 0, m |-> 0], [s |-> 1, e |-> 0, m |-> 0],
          FloatInfinity, [s |-> 1, e |-> 255, m |-> 0], FloatNaN}

PcmInit ==
    /\ pcmInput \in PcmInputs
    /\ pcmBy = "none"
    /\ pcmOutput = 0

PcmIdle ==
    /\ pcmInput = [s |-> 0, e |-> 0, m |-> 0]
    /\ pcmBy = "none"
    /\ pcmOutput = 0

\* convertFloat32ToInt16 of sRtin.js applied to the sample
ConvertForRecognizer ==
    /\ pcmBy = "none"
    /\ pcmBy' = "convertFloat32ToInt16"
    /\ pcmOutput' = convertFloat32ToInt16(<<pcmInput>>)[1]
    /\ UNCHANGED pcmInput
    /\ UNCHANGED <<varsBuf, varsUdp, varsAsr, varsTcp, varsDec, varsRes, varsPort>>

\* the conversion loop of saveAudioFile applied to the sample
ConvertForFile ==
    /\ pcmBy = "none"
    /\ pcmBy' = "saveAudioFile"
    /\ pcmOutput' = UdpPcmData(<<pcmInput>>)[1]
    /\ UNCHANGED pcmInput
    /\ UNCHANGED <<varsBuf, varsUdp, varsAsr, varsTcp, varsDec, varsRes, varsPort>>

NextPcm == ConvertForRecognizer \/ ConvertForFile

(***************************************************************************)
(* downsampleAudio applied to chunks that arrive one after the other       *)
(***************************************************************************)
MaxResampleLen == 4

MaxResampleCalls == 3

\* the rates of the calls: those of sRtin.js, other downsampling ratios,
\* equal rates and an upsampling one
RatePairs ==
    {[from |-> INPUT_SAMPLE_RATE, to |-> TARGET_SAMPLE_RATE],
     [from |-> 48000, to |-> 16000], [from |-> 22050, to |-> 16000],
     [from |-> 16000, to |-> 16000], [from |-> 8000, to |-> 16000]}

ConstantChunk(v, n) == [i \in 1..n |-> v]

RampChunk(n) == [i \in 1..n |-> 100 * i]

\* the Int16Array chunks handed over: constant ones and rising ones
ResChunks ==
    {ConstantChunk(v, n) : v \in {7, -32768}, n \in 0..MaxResampleLen}
    \cup {RampChunk(n) : n \in 0..MaxResampleLen}

ResInit ==
    /\ resRates \in RatePairs
    /\ resChunks = <<>>
    /\ resOutputs = <<>>
    /\ resReads = <<>>

ResIdle ==
    /\ resRates = [from |-> 1, to |-> 1]
    /\ resChunks = <<>>
    /\ resOutputs = <<>>
    /\ resReads = <<>>

\* one call downsampleAudio(chunk, fromSampleRate, toSampleRate); the
\* function has only local variables, nothing is kept for the next call
Resample(chunk) ==
    /\ Len(resChunks) < MaxResampleCalls
    /\ resChunks' = Append(resChunks, chunk)
    /\ resOutputs' = Append(resOutputs, downsampleAudio(chunk, resRates.from, resRates.to))
    /\ resReads' = Append(resReads, ReadsOf(Len(chunk), resRates.from, resRates.to))
    /\ UNCHANGED resRates
    /\ UNCHANGED <<varsBuf, varsUdp, varsAsr, varsTcp, varsDec, varsPcm, varsPort>>

NextRes == \E chunk \in ResChunks : Resample(chunk)

(***************************************************************************)
(* startServer and changePort of unnamed/part_003 and unnamed/part_004     *)
(***************************************************************************)
MaxConnections == 2

\* the initial value of port, and the ports changePort is asked for
Ports == {7474, 7475, 7476}

\* the server variable after startServer
Server(p, ok) == [port |-> p, listening |-> ok]

\* the listening handles after startServer: server.close() stops the old
\* server listening, then listen opens the new handle if it succeeds
ListenersAfterStart(open, old, p, ok) ==
    (open \ (IF old.listening THEN {old.port} ELSE {}))
        \cup (IF ok THEN {p} ELSE {})

\* the state once the script is loaded: startServer() has run with port 7474
\* and its listen has succeeded or has reported an error
PortInit ==
    /\ port = 7474
    /\ server \in {Server(7474, TRUE), Server(7474, FALSE)}
    /\ listeners = IF server.listening THEN {7474} ELSE {}
    /\ connections = {}
    /\ delivered = 0
    /\ portEvent = "none"

PortIdle ==
    /\ port = 7474
    /\ server = Server(7474, FALSE)
    /\ listeners = {}
    /\ connections = {}
    /\ delivered = 0
    /\ portEvent = "none"

\* changePort(newPort): port = newPort; startServer().  server.close() stops
\* the old server accepting connections; the sockets it accepted stay open.
changePort(newPort, ok) ==
    /\ port' = newPort
    /\ server' = Server(newPort, ok)
    /\ listeners' = ListenersAfterStart(listeners, server, newPort, ok)
    /\ portEvent' = "changePort"
    /\ UNCHANGED <<connections, delivered>>
    /\ UNCHANGED <<varsBuf, varsUdp, varsAsr, varsTcp, varsDec, varsPcm, varsRes>>

\* a client connects to a listening port: the connection callback runs
ClientConnected(id, p) ==
    /\ p \in listeners
    /\ \A c \in connections : c.id # id
    /\ connections' = connections \cup {[id |-> id, port |-> p]}
    /\ portEvent' = "connection"
    /\ UNCHANGED <<port, server, listeners, delivered>>
    /\ UNCHANGED <<varsBuf, varsUdp, varsAsr, varsTcp, varsDec, varsPcm, varsRes>>

\* socket.on('data') of an accepted socket
SocketData(c) ==
    /\ c \in connections
    /\ delivered' = c.port
    /\ portEvent' = "data"
    /\ UNCHANGED <<port, server, listeners, connections>>
    /\ UNCHANGED <<varsBuf, varsUdp, varsAsr, varsTcp, varsDec, varsPcm, varsRes>>

\* socket.on('close')
SocketClose(c) ==
    /\ c \in connections
    /\ connections' = connections \ {c}
    /\ portEvent' = "close"
    /\ UNCHANGED <<port, server, listeners, delivered>>
    /\ UNCHANGED <<varsBuf, varsUdp, varsAsr, varsTcp, varsDec, varsPcm, varsRes>>

NextPort ==
    \/ \E newPort \in Ports, ok \in BOOLEAN : changePort(newPort, ok)
    \/ \E id \in 1..MaxConnections, p \in Ports : ClientConnected(id, p)
    \/ \E c \in connections : SocketData(c)
    \/ \E c \in connections : SocketClose(c)

InitBuf == BufInit /\ UdpIdle /\ AsrIdle /\ TcpIdle /\ DecIdle
    /\ PcmIdle /\ ResIdle /\ PortIdle

SpecBuf == InitBuf /\ [][NextBuf]_vars

\* the writer started on buffers of 1 or 3 frames, with the scheduler of
\* Max, which runs every task that was scheduled once its delay has passed
InitBufLive == InitBuf /\ \A b \in Buffers : framecount[b] \in {1, 3}

SpecBufLive == InitBufLive /\ [][NextBuf]_vars /\ WF_vars(clearInactiveBuffer)

InitUdp == UdpInit /\ BufIdle /\ AsrIdle /\ TcpIdle /\ DecIdle
    /\ PcmIdle /\ ResIdle /\ PortIdle

SpecUdp == InitUdp /\ [][NextUdp]_vars

InitAsr == AsrInit /\ BufIdle /\ UdpIdle /\ TcpIdle /\ DecIdle
    /\ PcmIdle /\ ResIdle /\ PortIdle

SpecAsr == InitAsr /\ [][NextAsr]_vars

InitTcp == TcpInit /\ BufIdle /\ UdpIdle /\ AsrIdle /\ DecIdle
    /\ PcmIdle /\ ResIdle /\ PortIdle

SpecTcp == InitTcp /\ [][NextTcp]_vars

InitDec == DecInit /\ BufIdle /\ UdpIdle /\ AsrIdle /\ TcpIdle
    /\ PcmIdle /\ ResIdle /\ PortIdle

SpecDec == InitDec /\ [][NextDec]_vars

InitPcm == PcmInit /\ BufIdle /\ UdpIdle /\ AsrIdle /\ TcpIdle /\ DecIdle /\ ResIdle /\ PortIdle

SpecPcm == InitPcm /\ [][NextPcm]_vars

InitRes == ResInit /\ BufIdle /\ UdpIdle /\ AsrIdle /\ TcpIdle /\ DecIdle /\ PcmIdle /\ PortIdle

SpecRes == InitRes /\ [][NextRes]_vars

InitPort ==
    PortInit /\ BufIdle /\ UdpIdle /\ AsrIdle /\ TcpIdle /\ DecIdle /\ PcmIdle /\ ResIdle

SpecPort == InitPort /\ [][NextPort]_vars

(***************************************************************************)
(* Claims about code/writetobuf.js (SpecBuf)                               *)
(***************************************************************************)
\* C1: every sample of a chunk that writeAudioChunk accepts is written at a
\* frame index in [0, capacity) of the active buffer (a write reaching the
\* end wraps to index 0).
C1_WritesInsideBuffer ==
    bufPosted = "written" =>
        \A frame \in poked : 0 <= frame /\ frame < framecount[activeBuffer]

\* C2: at most one deferred clear is pending at any time (a clearBuffer
\* call cancels the clear scheduled by the call before it).
C2_AtMostOnePendingClear == Len(pendingClears) <= 1

(***************************************************************************)
(* Claims about UDP.js (SpecUdp)                                           *)
(***************************************************************************)
\* C3: when the save fails during stopRecording, the accumulated samples
\* are still held once stopRecording has completed, unchanged from their
\* value when stop was called.
C3_SamplesKeptOnFailedSave ==
    (udpEvent = "stopRecordingResume" /\ lastStop.result = "failed") =>
        recordingAudio = lastStop.held

\* C4: no packet and no startRecording is processed between the start and
\* the end of a stopRecording, so the final reset of a stop discards no
\* sample appended after the stop was issued.
C4_StopDiscardsNothingNew ==
    udpEvent = "stopRecordingResume" => discarded = <<>>

\* C5: a packet processed while no session is open (before any start, or
\* after a stop, also a stop that found the recording empty) leaves the
\* accumulated sequence unchanged.
C5_AppendOnlyWhileActive ==
    [][(udpEvent' = "message" /\ ~sessionOpen) => recordingAudio' = recordingAudio]_vars

(***************************************************************************)
(* Claims about code/sRtin.js (SpecAsr)                                    *)
(***************************************************************************)
\* C6 as claimed: every array passed to rec.acceptWaveform has exactly
\* targetFrameSize samples.
C6_ForwardedHaveFrameSize ==
    \A i \in 1..Len(forwarded) : Len(forwarded[i]) = targetFrameSize

\* the length of a frame of targetFrameSize samples after the 44100 -> 16000
\* conversion: round(targetFrameSize * 16000 / 44100), in halves to round
DownsampledFrameSize ==
    NewLength(targetFrameSize, INPUT_SAMPLE_RATE, TARGET_SAMPLE_RATE)

\* C6 as amended: every frame sliced off the accumulator has exactly
\* targetFrameSize samples, and what is passed to rec.acceptWaveform for it
\* is its downsampled image of round(targetFrameSize * 16000 / 44100)
\* samples; nothing of another length is forwarded.
C6_FramesHaveFixedSizes ==
    /\ Len(forwarded) = Len(taken)
    /\ \A i \in 1..Len(taken) :
          /\ Len(taken[i]) = targetFrameSize
          /\ Len(forwarded[i]) = DownsampledFrameSize

C6_Witness == Len(forwarded) >= 2 /\ Len(audioBuffer) > 0

\* C7: after pushes totalling total samples, floor(total / targetFrameSize)
\* frames have been forwarded and the accumulator holds the remaining
\* total mod targetFrameSize samples, fewer than targetFrameSize.
C7_FrameCount ==
    /\ Len(forwarded) = Len(pushed) \div targetFrameSize
    /\ Len(audioBuffer) = Len(pushed) % targetFrameSize
    /\ Len(audioBuffer) < targetFrameSize

C7_Witness == Len(forwarded) = 2 /\ Len(audioBuffer) = 2

\* C8: the frames taken so far, concatenated in order and followed by the
\* retained remainder, are exactly the samples pushed so far.
C8_NoSampleLostOrReordered == Flatten(taken) \o audioBuffer = pushed

C8_Witness == Len(taken) >= 2 /\ audioBuffer # <<>> /\ Len(pushed) > 2 * targetFrameSize

(***************************************************************************)
(* Claims about the receivers' packet handlers (SpecTcp) and the decoders  *)
(* (SpecDec)                                                               *)
(***************************************************************************)
\* C9: an error raised while one packet is processed is caught inside that
\* packet's processing and the receiver goes on processing later packets.
C9_PacketErrorsContained == tcpFault # "none" => tcpAlive

\* the chunk a decoder returns for the complete groups of the input alone
UdpOfCompleteGroups ==
    Returned(Values(UdpConvertMatrixToFloat32(
        Zeros(UdpSkipCount) \o Encoded(decInput.samples), decLast).floatData))
TcpOfCompleteGroups ==
    [TcpConvertMatrixToFloat32(Zeros(TcpSkipCount) \o Encoded(decInput.samples))
        EXCEPT !.floatData = Values(@)]

\* C10: a payload whose post-header length is not a multiple of 4 is decoded
\* without an error, into the chunk of its complete 4-byte groups.
C10_TrailingBytesIgnored ==
    (~decInput.cut /\ decInput.tail # 0) =>
        /\ decoder = "UDP.js" => decoded = UdpOfCompleteGroups
        /\ decoder = "TCP.js" => decoded = TcpOfCompleteGroups

(***************************************************************************)
(* Claims about the decoders' results (SpecDec)                            *)
(***************************************************************************)
\* headerSkipBytes and the amplitude limit of each decoder
SkipOf(dec) ==
    CASE dec = "UDP.js" -> UdpSkipCount
      [] dec = "TCP.js" -> TcpSkipCount
      [] dec = "sRtin.js" -> AsrSkipCount
      [] dec = "UDPdown.js" -> DownSkipCount

LimitOf(dec) ==
    CASE dec = "UDP.js" -> [s |-> 0, e |-> 127, m |-> 0]             \* 1
      [] dec = "sRtin.js" -> [s |-> 0, e |-> 130, m |-> 2097152]     \* 10
      [] dec = "UDPdown.js" -> [s |-> 0, e |-> 150, m |-> 1611392]   \* 1e7

IsFinite(value) == value.e # 255

\* value is finite and |value| < limit
InBound(value, limit) ==
    /\ IsFinite(value)
    /\ value.e < limit.e \/ (value.e = limit.e /\ value.m < limit.m)

\* the values of the complete 4-byte groups after the header, in payload order
PostHeaderValues(dec) ==
    LET payload == PayloadOf(decInput, SkipOf(dec))
    IN [i \in 1..((Len(payload) - SkipOf(dec)) \div 4) |->
           readFloatBE(payload, SkipOf(dec) + 4 * (i - 1))]

AllInBound(dec) ==
    \A i \in 1..Len(PostHeaderValues(dec)) : InBound(PostHeaderValues(dec)[i], LimitOf(dec))

ValidatingDecoders == {"UDP.js", "sRtin.js", "UDPdown.js"}

\* C11: for a payload (with its full header) whose post-header groups are all
\* finite and within the bound, the decoders of UDP.js, sRtin.js and
\* UDPdown.js return floor((len - headerSkipBytes) / 4) samples, the values of
\* the groups in payload order.
C11_AllValidGivesAllGroups ==
    (decoder \in ValidatingDecoders /\ ~decInput.cut /\ AllInBound(decoder)) =>
        /\ decoded.error = "none"
        /\ Len(decoded.floatData) =
              (Len(PayloadOf(decInput, SkipOf(decoder))) - SkipOf(decoder)) \div 4
        /\ decoded.floatData = PostHeaderValues(decoder)

C11_Witness ==
    /\ decoder = "UDP.js"
    /\ decInput.samples = <<FloatHalf, FloatTenth, FloatNegQuarter>>
    /\ decInput.tail = 2
    /\ Len(decoded.floatData) = 3

\* the in-order subsequence of the post-header values that are valid
ValidSubsequence(dec) ==
    IF dec = "TCP.js" THEN SelectSeq(PostHeaderValues(dec), IsFinite)
    ELSE SelectSeq(PostHeaderValues(dec), LAMBDA v : InBound(v, LimitOf(dec)))

\* C12: the chunk a decoder returns is the in-order subsequence of the
\* post-header groups whose value is finite and within the limit; an invalid
\* value is dropped on its own (UDP.js, sRtin.js, TCP.js).
C12_InvalidDroppedIndividually ==
    (decoder \in {"UDP.js", "sRtin.js", "TCP.js"} /\ ~decInput.cut /\ decInput.tail = 0) =>
        decoded.floatData = ValidSubsequence(decoder)

\* the values the decoders return when no chunk was decoded before
UdpFromFreshState ==
    Values(UdpConvertMatrixToFloat32(PayloadOf(decInput, UdpSkipCount), NullLast).floatData)
DownFromFreshState ==
    DownConvertMatrixToFloat32(PayloadOf(decInput, DownSkipCount), NullLast).floatData

\* C13: the chunk returned for a payload is the same whatever the carried
\* continuity state (lastValue, lastIndex) is when decode is called.
C13_ContinuityStateNotInOutput ==
    /\ decoder = "UDP.js" => decoded.floatData = UdpFromFreshState
    /\ decoder = "UDPdown.js" => decoded.floatData = DownFromFreshState

C13_Witness ==
    /\ decoder = "UDP.js"
    /\ ~decLast.isNull
    /\ Len(decoded.floatData) = 2
    /\ decoded.floatData[1] # decLast.value
    /\ decLastAfter # decLast

\* C14: in-bound samples encoded as big-endian floats after a 12-byte zero
\* header and decoded with headerSkipBytes = 12 come back as the same sequence.
C14_RoundTrip ==
    (/\ decoder = "UDP.js"
     /\ ~decInput.cut
     /\ decInput.tail = 0
     /\ \A i \in 1..Len(decInput.samples) : InBound(decInput.samples[i], LimitOf("UDP.js")))
    => decoded.floatData = decInput.samples

C14_Witness ==
    /\ decoder = "UDP.js"
    /\ decInput.samples = <<FloatTenth, FloatNegQuarter, FloatHalf>>
    /\ decInput.tail = 0
    /\ decoded.floatData = decInput.samples

(***************************************************************************)
(* Further claims about code/writetobuf.js (SpecBuf)                       *)
(***************************************************************************)
\* C15: once exactly framecount samples in total have been written to a fresh
\* buffer (cursor 0, no switch yet), the write cursor is 0 again.
C15_CursorZeroAfterCapacity ==
    (switchCount = 0 /\ framecount[activeBuffer] > 0
        /\ totalWritten = framecount[activeBuffer]) => clipStart1 = 0

C15_Witness ==
    /\ switchCount = 0
    /\ framecount[activeBuffer] = 4
    /\ totalWritten = 4
    /\ writeCount >= 2
    /\ clipStart1 = 0

\* C16: always one buffer is the active one and the other the inactive one,
\* and every switch exchanges the two roles.
C16_RolesExclusiveAndSwapped ==
    /\ [](/\ activeBuffer \in Buffers
          /\ inactiveBuffer \in Buffers
          /\ activeBuffer # inactiveBuffer)
    /\ [][switchCount' # switchCount =>
             /\ activeBuffer' = inactiveBuffer
             /\ inactiveBuffer' = activeBuffer]_vars

C16_Witness == switchCount = 2 /\ activeBuffer = 1 /\ inactiveBuffer = 2

\* C17: a clearBuffer call fades the buffer that is active before the switch,
\* then exchanges the roles, then schedules the deferred clear of the buffer
\* that is now inactive; no clear runs inside the call.
C17_SwitchStepsInOrder ==
    [][Len(pendingClears') > Len(pendingClears) =>
          /\ samples'[activeBuffer] =
                applyFadeOut(samples[activeBuffer], framecount[activeBuffer])
          /\ faded'.buffer = activeBuffer
          /\ activeBuffer' = inactiveBuffer
          /\ inactiveBuffer' = activeBuffer
          /\ pendingClears' = Append(pendingClears, switchCount')
          /\ samples'[inactiveBuffer] = samples[inactiveBuffer]
          /\ firedClear' = firedClear
          /\ clipStart1' = clipStart1]_vars

C17_Witness ==
    /\ bufPosted = "Switched"
    /\ faded.buffer = inactiveBuffer
    /\ Len(pendingClears) = 1
    /\ \E j \in DOMAIN samples[inactiveBuffer] :
          samples[inactiveBuffer][j].v # 0 /\ samples[inactiveBuffer][j].k = 1
    /\ \A j \in DOMAIN samples[activeBuffer] : samples[activeBuffer][j].k = 0

\* C18: a clearBuffer call multiplies each of the last fadeLength frames of
\* the buffer that was active by a weight; the first weight is 1, each next
\* one is 1 / fadeLength smaller (strictly decreasing, linear, the last one
\* being 1 / fadeLength), and no other frame is changed.
C18_FadeWeightsDecreaseLinearly ==
    [][Len(pendingClears') > Len(pendingClears) =>
          LET b == activeBuffer
              n == framecount[b]
              Trailing(j) == j >= n - fadeLength /\ j \in DOMAIN samples[b]
              Numerator(j) == samples'[b][j].w \div samples[b][j].w
          IN \A j \in DOMAIN samples[b] :
                IF Trailing(j)
                THEN /\ samples'[b][j].v = samples[b][j].v
                     /\ samples'[b][j].k = samples[b][j].k + 1
                     /\ samples'[b][j].w = samples[b][j].w * Numerator(j)
                     /\ Numerator(j) >= 1 /\ Numerator(j) <= fadeLength
                     /\ j = n - fadeLength => Numerator(j) = fadeLength
                     /\ Trailing(j + 1) => Numerator(j + 1) = Numerator(j) - 1
                ELSE samples'[b][j] = samples[b][j]]_vars

C18_Witness ==
    /\ bufPosted = "Switched"
    /\ faded.buffer = inactiveBuffer
    /\ framecount[inactiveBuffer] = 4
    /\ \A j \in 0..3 : samples[inactiveBuffer][j].v # 0
    /\ samples[inactiveBuffer][4 - fadeLength - 1].k = 0
    /\ samples[inactiveBuffer][4 - fadeLength] = [v |-> 1, k |-> 1, w |-> fadeLength]
    /\ samples[inactiveBuffer][3] = [v |-> 2, k |-> 1, w |-> 1]

\* C19: the fade never leaves the buffer: every frame index applyFadeOut
\* reads or writes lies in [0, framecount) of the buffer it fades, for every
\* non-empty buffer.
C19_FadeInsideBuffer ==
    (faded.buffer # 0 /\ framecount[faded.buffer] > 0) =>
        \A frame \in faded.frames : 0 <= frame /\ frame < framecount[faded.buffer]

\* C20: when a deferred clear fires, every frame of the buffer that is
\* inactive at that moment is zeroed and the write cursor is set to 0.
C20_ClearResetsInactive ==
    [][firedClear' # firedClear =>
          /\ DOMAIN samples'[inactiveBuffer] = DOMAIN samples[inactiveBuffer]
          /\ \A j \in DOMAIN samples'[inactiveBuffer] :
                samples'[inactiveBuffer][j] = Silence
          /\ clipStart1' = 0]_vars

C20_Witness ==
    /\ bufPosted = "Inactive buffer cleared after delay."
    /\ switchCount = 1 /\ firedClear = 1
    /\ totalWritten = 1
    /\ \A b \in Buffers :
          /\ framecount[b] > 0
          /\ \A j \in DOMAIN samples[b] : samples[b][j] = Silence


(***************************************************************************)
(* Claims about the recording sessions                                     *)
(***************************************************************************)

\* C21 as written: startRecording, whatever the session's state (an active
\* one included), leaves the accumulated-sample sequence empty and the
\* session active.
C21_StartAlwaysResets ==
    [][asrEvent' = "startRecording" =>
         (isRecording' /\ asrRecordingAudio' = <<>>)]_vars

\* C21: startRecording leaves the session active; it empties the
\* accumulated-sample sequence when no session was active and leaves the
\* sequence as it is when one was.
C21_StartResetsWhenIdle ==
    [][asrEvent' = "startRecording" =>
         /\ isRecording'
         /\ ~isRecording => asrRecordingAudio' = <<>>
         /\ isRecording => asrRecordingAudio' = asrRecordingAudio]_vars

\* startRecording has run during an active session that holds samples
C21_Witness ==
    /\ asrEvent = "startRecording"
    /\ asrPosted = "Already recording."
    /\ isRecording
    /\ asrRecordingAudio # <<>>


\* C22: stopRecording on a session with no samples reports the empty
\* condition, hands nothing to saveAudioFile (no file is created) and leaves
\* the session stopped: not active, the sequence empty.
C22_EmptyStopLeavesStopped ==
    [][(udpEvent' = "stopRecording" /\ recordingAudio = <<>>) =>
         /\ udpPosted' = "No audio data to save."
         /\ saving' = saving
         /\ ~recording'
         /\ recordingAudio' = <<>>]_vars


TwiceScaledNumerator(value) ==
    LET j == IF value.e = 0 THEN 0 ELSE 128 + (value.m \div 65536)
    IN (IF value.s = 1 THEN -1 ELSE 1) * 2 * j * 32767

\* floor(2 * value * 32767)
FloorOfTwice(value) ==
    LET x == TwiceScaledNumerator(value)
        k == 134 - value.e
    IN IF x = 0 THEN 0
       ELSE IF k > 30 THEN (IF x < 0 THEN -1 ELSE 0)
       ELSE IF k >= 0 THEN x \div (2 ^ k)
       ELSE x * (2 ^ (0 - k))

\* ceiling(2 * value * 32767)
CeilingOfTwice(value) ==
    LET x == TwiceScaledNumerator(value)
        k == 134 - value.e
    IN IF x = 0 THEN 0
       ELSE IF k > 30 THEN (IF x < 0 THEN 0 ELSE 1)
       ELSE IF k >= 0 THEN 0 - ((0 - x) \div (2 ^ k))
       ELSE x * (2 ^ (0 - k))

\* r is clamp(R, -32768, 32767) for an integer R at distance at most 1/2
\* from value * 32767
IsClampedNearest(r, value) ==
    IF r = 32767 THEN FloorOfTwice(value) >= 2 * 32767 - 1
    ELSE IF r = -32768 THEN CeilingOfTwice(value) <= 2 * (-32768) + 1
    ELSE 2 * r - 1 <= FloorOfTwice(value) /\ CeilingOfTwice(value) <= 2 * r + 1

\* C24: the conversion of a sample s is an integer of -32768..32767, and for
\* every number s, inside and outside [-1, 1], it is
\* clamp(round(s * 32767), -32768, 32767): the matching bound for an
\* infinity, and for a finite s the clamped value of an integer nearest to
\* s * 32767.
C24_PcmIsClampedRound ==
    pcmBy # "none" =>
        /\ pcmOutput \in -32768..32767
        /\ (pcmInput.e = 255 /\ ~IsNaN(pcmInput)) =>
               pcmOutput = IF pcmInput.s = 0 THEN 32767 ELSE -32768
        /\ pcmInput.e < 255 => IsClampedNearest(pcmOutput, pcmInput)

\* a sample below -1 has been converted and clamped
C24_Witness ==
    /\ pcmBy = "convertFloat32ToInt16"
    /\ pcmInput.s = 1
    /\ pcmInput.e \in 128..254
    /\ pcmOutput = -32768

\* C25: where s * 32767 lies exactly halfway between two integers of the
\* 16-bit range, the conversion gives the one farther from zero, for a
\* negative s as for a positive one.
C25_HalfAwayFromZero ==
    (/\ pcmBy # "none"
     /\ pcmInput.e < 255
     /\ FloorOfTwice(pcmInput) = CeilingOfTwice(pcmInput)
     /\ FloorOfTwice(pcmInput) % 2 = 1
     /\ FloorOfTwice(pcmInput) \in -65534..65534) =>
        pcmOutput = IF pcmInput.s = 0
                    THEN (FloorOfTwice(pcmInput) + 1) \div 2
                    ELSE (FloorOfTwice(pcmInput) - 1) \div 2


(***************************************************************************)
(* Claims about downsampleAudio (SpecRes)                                  *)
(***************************************************************************)

\* count is round(length * toRate / fromRate), a half rounded up
IsRoundedLength(count, length, rates) ==
    /\ rates.from * (2 * count - 1) <= 2 * length * rates.to
    /\ 2 * length * rates.to < rates.from * (2 * count + 1)

\* C26: for every chunk length n and pair of rates, a call returns exactly
\* round(n / (fromRate / toRate)) samples.
C26_OutputLengthIsRounded ==
    \A c \in 1..Len(resChunks) :
        IsRoundedLength(Len(resOutputs[c]), Len(resChunks[c]), resRates)

\* a call whose length was rounded up: 4 samples at 22050 Hz gave 3
C26_Witness ==
    /\ resRates = [from |-> 22050, to |-> 16000]
    /\ \E c \in 1..Len(resChunks) :
           Len(resChunks[c]) = 4 /\ Len(resOutputs[c]) = 3

\* every chunk handed over so far holds only v
AllConstant(v) ==
    \A c \in 1..Len(resChunks) : resChunks[c] = ConstantChunk(v, Len(resChunks[c]))

\* C27: when the chunks handed over one after the other all hold the same
\* value v, every output sample of every call is v, the samples next to the
\* chunk boundaries included.
C27_ConstantStaysConstant ==
    \A v \in {7, -32768} :
        AllConstant(v) =>
            \A c \in 1..Len(resOutputs) :
                \A i \in 1..Len(resOutputs[c]) : resOutputs[c][i] = v

\* two consecutive chunks of the lowest 16-bit value, each long enough for
\* an interpolated sample and an edge sample, have been resampled
C27_Witness ==
    /\ Len(resChunks) >= 2
    /\ AllConstant(-32768)
    /\ \A c \in 1..2 : Len(resChunks[c]) >= 2 /\ Len(resOutputs[c]) >= 2

\* the chunks so far all have chunkLen samples
AllOfLength(chunkLen) == \A c \in 1..Len(resChunks) : Len(resChunks[c]) = chunkLen

\* C28: N chunks of chunkLen samples each, resampled in N calls, give
\* round(N * chunkLen / ratio) output samples in total.
C28_TotalIsRoundedOnce ==
    \A chunkLen \in 1..(MaxResampleLen + 1) :
        AllOfLength(chunkLen) =>
            IsRoundedLength(Len(Flatten(resOutputs)),
                            Len(resChunks) * chunkLen, resRates)

\* C29: resampling is continuous across calls: an output sample whose
\* interpolation window reaches past the end of its chunk is computed with
\* the adjoining chunk's samples and not clamped to the chunk-edge sample, so
\* that, where the calls give as many samples as the whole stream does, they
\* give the samples the whole stream gives.
C29_ContinuousAcrossChunks ==
    LET whole == downsampleAudio(Flatten(resChunks), resRates.from, resRates.to)
    IN Len(Flatten(resOutputs)) = Len(whole) => Flatten(resOutputs) = whole


(***************************************************************************)
(* Claims about the order of the hand-offs (SpecUdp)                       *)
(***************************************************************************)

\* consumer a is handed the chunk before consumer b whenever both are
Before(a, b) ==
    \A i, j \in 1..Len(fanout) : (fanout[i] = a /\ fanout[j] = b) => i < j

C31_BindFailureIsFatal == [][udpServer = "failed" => UNCHANGED varsUdp]_vars


(***************************************************************************)
(* Claims about changePort (SpecPort)                                      *)
(***************************************************************************)

\* C32: after any sequence of changePort calls at most one listener is open,
\* and a payload reaches the 'data' handler only through the listener on the
\* port requested last.
C32_OnlyNewestListenerDelivers ==
    /\ Cardinality(listeners) <= 1
    /\ portEvent = "data" => delivered = port


C34_ClearLeavesActiveAlone ==
    [][firedClear' # firedClear =>
         /\ samples'[activeBuffer] = samples[activeBuffer]
         /\ clipStart1' = clipStart1]_vars


AllSilent(buf) == \A j \in DOMAIN buf : buf[j] = Silence

\* C35: after every clearBuffer (fade, switch, deferred clear scheduled),
\* unless a further switch occurs, the clear scheduled by it eventually fires
\* and the buffer that switch made inactive is cleared (SpecBufLive: the
\* scheduler runs every task that is due).
C35_ClearEventuallyFires ==
    \A k \in 1..MaxSwitches :
        (switchCount = k /\ \E i \in 1..Len(pendingClears) : pendingClears[i] = k)
            ~> (switchCount # k
                \/ (firedClear = k /\ pendingClears = <<>>
                    /\ AllSilent(samples[inactiveBuffer])))

\* the clear of the last switch has fired on a buffer that held a sample
C35_Witness ==
    /\ switchCount > 0
    /\ firedClear = switchCount
    /\ pendingClears = <<>>
    /\ totalWritten > 0
    /\ bufPosted = "Inactive buffer cleared after delay."
    /\ framecount[inactiveBuffer] > 0
    /\ AllSilent(samples[inactiveBuffer])


\* C36: writeAudioChunk called with a chunk longer than the capacity of the
\* active buffer, or while the active buffer has no frames, reports the
\* condition and leaves the contents of both buffers and the write cursor
\* unchanged.
C36_RejectedWriteChangesNothing ==
    [][\A audioData \in Chunks :
          (/\ writeAudioChunk(audioData)
           /\ \/ framecount[activeBuffer] = 0
              \/ Len(audioData) > framecount[activeBuffer]) =>
              /\ samples' = samples
              /\ clipStart1' = clipStart1
              /\ bufPosted' \in {"Active buffer not initialized or is empty.",
                                 "Active buffer is too small for the incoming data."}]_vars

\* a chunk of two samples has been rejected by an active buffer of one frame
\* that holds a sample written before
C36_Witness ==
    /\ bufPosted = "Active buffer is too small for the incoming data."
    /\ framecount[activeBuffer] = 1
    /\ totalWritten > 0
    /\ ~AllSilent(samples[activeBuffer])


(***************************************************************************)
(* Claims about payloads without valid samples (SpecUdp)                   *)
(***************************************************************************)

\* C37: a payload that decodes to zero valid samples, being shorter than the
\* header or holding only invalid values, changes no pipeline state: nothing
\* is appended to the recording, nothing is sent to the buffer writer and
\* the chunk counter is not incremented.
C37_EmptyChunkChangesNothing ==
    [][(udpEvent' = "message" /\ received' = 0) =>
           /\ UNCHANGED <<recordingAudio, chunkCounter, outlet, fed>>
           /\ UNCHANGED <<recording, saving, lastValue, lastIndex>>
           /\ fanout' = <<>>]_vars

C37_Witness ==
    /\ udpEvent = "message"
    /\ received = 0
    /\ fanout = <<>>
    /\ recording
    /\ chunkCounter = 1
    /\ recordingAudio # <<>>
    /\ outlet # <<>>

\* C38: every source index a call of downsampleAudio reads (index, and
\* index + 1 in the interpolating branch) lies in 0 .. length - 1 of its
\* chunk, for every chunk length from 0 on and every ratio
C38_ReadsStayInsideChunk ==
    \A c \in 1..Len(resReads) :
        \A index \in resReads[c] : 0 <= index /\ index < Len(resChunks[c])

\* an upsampling call whose last outputs take the branch without index + 1
\* and read the last sample, after a call on the empty chunk
C38_Witness ==
    /\ resRates = [from |-> 8000, to |-> 16000]
    /\ Len(resChunks) = 2
    /\ Len(resChunks[1]) = 0 /\ resReads[1] = {}
    /\ Len(resChunks[2]) = 3 /\ Len(resOutputs[2]) = 6
    /\ resReads[2] = {0, 1, 2}
    /\ IndicesRead(3, 5, 8000, 16000) = {2}
\* the entries of partialLog that store, hold or send a partial transcript
IsPartialStep(event) == event.op \in {"held", "store", "emit"}

\* the partial transcript the log leaves stored: the text of its last
\* "held" or "store" entry when no "emit" follows it
HeldAfter(log) ==
    LET steps == {k \in 1..Len(log) : IsPartialStep(log[k])}
    IN IF steps = {} THEN ""
       ELSE LET last == CHOOSE k \in steps : \A j \in steps : j <= k
            IN IF log[last].op = "emit" THEN "" ELSE log[last].text

\* C39: every sending of a stored partial transcript comes directly behind
\* a final result with text or the shutdown, sends the text stored last
\* (an earlier stored one was overwritten and is never sent), and empties
\* the store in the same step, so that no stored partial is sent twice
C39_StoredPartialSentOnce ==
    /\ \A k \in 1..Len(partialLog) :
          partialLog[k].op = "emit" =>
             /\ k > 1
             /\ partialLog[k - 1].op \in {"final", "shutdown"}
             /\ \E j \in 1..(k - 1) :
                   /\ partialLog[j].op \in {"held", "store"}
                   /\ partialLog[j].text = partialLog[k].text
                   /\ \A m \in (j + 1)..(k - 1) : ~IsPartialStep(partialLog[m])
    /\ lastPartialResult = HeldAfter(partialLog)

\* a handler found the partial "two" a former one had stored, sent it behind
\* the final result "one" and emptied the store
C39_Witness ==
    /\ asrEvent = "message"
    /\ partialLog = <<PartialEvent("held", "two"), PartialEvent("final", "one"),
                      PartialEvent("emit", "two")>>
    /\ asrOutlets = <<"one", "two">>
    /\ lastPartialResult = ""
====
